SPECIFICATION Spec
CONSTANTS
  t1 = t1
  t2 = t2
  b1 = b1
  Null = Null
  Tab = {t1, t2}
  BrowserOf <- MCBrowserOf
  Forms <- MCForms
  Lower <- MCLower
  Emails = {"ann@x", "Ann@x", "bob@x"}
  Usernames = {"ann", "Ann", "bob"}
  Passwords = {"secret", "other"}
  Skew <- MCSkew
  Lifetime = 1
  MaxTime = 2
  MaxTokens = 2
  MaxFaults = 1
SYMMETRY MCSymmetry
INVARIANTS
  TypeOK
  AccountsAreWhole
PROPERTIES
  LetInRightly
