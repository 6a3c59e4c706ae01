SPECIFICATION CiSpec
CONSTANTS
  Installers = {"kubeadm"}
  Ingresses = {dash}
  MaxFaults = 0
  MaxNukes = 0
  RootHome = FALSE
  MaxClones = 0
INVARIANTS KubeconfigUploaded
