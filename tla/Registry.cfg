SPECIFICATION Spec
CONSTANTS
  t1 = t1
  t2 = t2
  NoFile = NoFile
  Caller = {t1, t2}
  File = {1, 2}
  Canonical <- Names
  Version <- Versions
  OnDisk <- Directory
  Embedded <- CompiledIn
  MaxEdits = 2
INVARIANTS
  NeverWaitsOnItself
  InstalledUsable
PROPERTIES
  UneditedReadIsDisk
  ImplementsStore

