SPECIFICATION FairSpec
CONSTANTS
  Installers = {"kubeadm", "k3sup"}
  Ingresses = {dash, git}
  MaxFaults = 4
  MaxNukes = 2
INVARIANTS Complete
PROPERTIES Recovers
