CONSTANTS
  t1 = t1
  t2 = t2
  acme = acme
  globex = globex
  Tenants = {acme, globex}
  Absent = Absent
  MaxVersion = 3
  Trainers = {t1}
  TenantOf <- OneTrainer
  Approvers = {miguel}
  MaxBreaks = 0
  MaxManual = 1
  MaxLate = 0
SPECIFICATION Spec
PROPERTIES
  RollbackRestoresChampions
