------------------------------ MODULE MCSecrets ------------------------------
(* An instance for TLC of the secrets of an environment, by themselves: the    *)
(* other parts of Credentials stay as they begin.                              *)
EXTENDS Credentials

CONSTANTS k1

MCSecretsOfOne == { [name |-> <<k1>>, env |-> env] : env \in {"dev", "prod"} }

MCKindsOfOne == { <<"slack", "bot_token">> }

MCInit == SecretsInit /\ CredInit /\ CredentialInit

MCNext == SecretsNext /\ UNCHANGED <<credVars, credentialVars>>

FallbackSpec == MCInit /\ [][MCNext]_<<secretVars, credVars, credentialVars>>
=============================================================================
