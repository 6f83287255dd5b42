SPECIFICATION Spec
CONSTANTS
  Process = {"old", "new"}
  PHP <- Versions
  Input <- Puts
  CString <- Text
  LongName = {"fifteen_letters"}
  UintRange = 4
  AS_MAX_STORE_SIZE = 3
  HashOrder <- Visits
INVARIANTS TypeOK ReadIsWritten ReadIsSettled
