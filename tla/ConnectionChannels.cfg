SPECIFICATION Spec
CONSTANTS
  MaxId = 5
  UserTypes = {"chat","file"}
  Regards <- Contacts
  MaxWire = 2
INVARIANTS
  TypeOK
  EndsAgree
  OneOpener
  NoOrphanChannel
  NeverRefused
  NoProtocolError
CHECK_DEADLOCK FALSE
