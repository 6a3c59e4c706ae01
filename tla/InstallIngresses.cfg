SPECIFICATION Spec
CONSTANTS
  Installers = {"kubeadm"}
  Ingresses = {dash, git}
  MaxFaults = 2
  MaxNukes = 0
INVARIANTS IngressesApplied
