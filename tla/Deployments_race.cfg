CONSTANTS
    prod = prod
    staging = staging
    v1 = v1
    v2 = v2
    v3 = v3
    NoBuild = NoBuild
    Preview = preview
    BuildOf <- MCBuildOf
    Builds = {1, 2, 3}
    Envs = {prod, preview}
    Contents = {v1, v2, v3}
    Jobs <- Pushes
    Keep <- KeepOne
    Replicas = {r1}
    Operators = {alice}
    MaxBuilds = 4
    Disturbances = {"rollback"}
    MaxDisturbances = 1
SPECIFICATION Spec
INVARIANTS ServedHasBytes
CHECK_DEADLOCK FALSE
