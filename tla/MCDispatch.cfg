SPECIFICATION FairSpec
CONSTANTS
    K8s = K8s
    Terraform = Terraform
    Nil = Nil
    Kinds = {K8s, Terraform}
    Manifest <- PackManifest
    Appliable = {K8s, Terraform}
    Registered = {K8s, Terraform}
    Comparable = {K8s, Terraform}
    MaxFaults = 2
    MaxChanges = 2
INVARIANTS StopsAtFailure InSyncIsTrue
PROPERTIES Reconverges
