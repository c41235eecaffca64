CONSTANTS
    prod = prod
    staging = staging
    v1 = v1
    v2 = v2
    v3 = v3
    NoBuild = NoBuild
    Preview = preview
    BuildOf <- MCBuildOf
    Builds = {1, 2}
    Envs = {prod, staging, preview}
    Contents = {v1, v2}
    Jobs <- Mixed
    Keep <- KeepNone
    Replicas = {r1, r2}
    Operators = {alice}
    MaxBuilds = 3
    Disturbances = {"clean", "crash", "rollback", "activate"}
    MaxDisturbances = 2
SPECIFICATION Spec
INVARIANTS RecordsSafe
CHECK_DEADLOCK FALSE
