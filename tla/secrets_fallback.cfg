SPECIFICATION FallbackSpec
CONSTANTS
    k1 = k1
    Keys = {k1}
    Models = {v1}
    ConfigCalls = {v1}
    CredentialKinds <- MCKindsOfOne
    CredentialCalls = {v1}
    Secrets <- MCSecretsOfOne
    SecretValues = {v1, v2}
    KnownPrefixes = {"dev"}
    MaxSets = 2
    MaxOutages = 1
CHECK_DEADLOCK FALSE
INVARIANT FallbackAnswers
