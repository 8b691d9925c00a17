CONSTANTS
  Version = {1, 9}
  Server = {"origin", "resident"}
  Sender = "origin"
  IdServer = "resident"
  KeyId = {0, 1, 2}
  Splits = {1, 2}
  ContentOf <- MCContentOf
  Unreadable <- MCKnownUnreadable
  MaxEdits = 1
  MaxSigns = 2
SPECIFICATION Spec
INVARIANTS VerifiedMeansSigned RedactionsAgree
PROPERTY SignatureOutlivesRedaction
