SPECIFICATION LiveSpec
CONSTANTS
  s1 = s1  s2 = s2  superAdmin = superAdmin  host = host  permA = permA  permB = permB  old = old
  Slots = {s1}
  Roles = {superAdmin, host}
  SuperAdmin = superAdmin
  Permissions = {permA, permB}
  Names = {permA, permB, old}
  Defaults <- HostDefaults
  InitialRows <- Databases
  MaxFaults = 1
PROPERTY ComesBack
