SPECIFICATION Spec
CONSTANTS
    SecretName <- MCSecretName
    Namespace <- MCNamespace
    Domain <- MCDomain
    WildcardOf <- MCWildcardOf
    Annotations <- MCAnnotations
    Chains <- MCChains
    MaxTime = 2
    NONE = NONE
INVARIANTS
    IndexExact
    
    ValidSecretWins
    ChoiceDeterministic
