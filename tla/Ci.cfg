SPECIFICATION CiFairSpec
CONSTANTS
  Installers = {"kubeadm"}
  Ingresses = {dash}
  MaxFaults = 2
  MaxNukes = 1
  RootHome = TRUE
  MaxClones = 1
INVARIANTS CleanDeploy
PROPERTIES RerunKeeps DeployEnds
