------------------------------- MODULE MCAccess -------------------------------
(* What gives access: the two PAM brokers, the issuance journal, sign-in and  *)
(* the cache of the identity provider's keys.  They share no row; each is     *)
(* explored from its initial state while the others stay in theirs.           *)
EXTENDS ElasticPam, DefenderPam, PamIssuance, OidcLogin, JwksCache

VARIABLE part    \* the part that is explored; the others stay in their initial state

AccessVars == <<part, elasticVars, tokenVars, issuanceVars, loginVars, jwksVars>>

AccessInit ==
    /\ part \in {"elastic", "defender", "issuance", "login", "keys"}
    /\ ElasticInit /\ TokenInit /\ IssuanceInit /\ LoginInit /\ JwksInit

AccessNext ==
    \/ /\ part = "elastic"
       /\ ElasticNext
       /\ UNCHANGED <<part, tokenVars, issuanceVars, loginVars, jwksVars>>
    \/ /\ part = "defender"
       /\ TokenNext
       /\ UNCHANGED <<part, elasticVars, issuanceVars, loginVars, jwksVars>>
    \/ /\ part = "issuance"
       /\ IssuanceNext
       /\ UNCHANGED <<part, elasticVars, tokenVars, loginVars, jwksVars>>
    \/ /\ part = "login"
       /\ LoginNext
       /\ UNCHANGED <<part, elasticVars, tokenVars, issuanceVars, jwksVars>>
    \/ /\ part = "keys"
       /\ JwksNext
       /\ UNCHANGED <<part, elasticVars, tokenVars, issuanceVars, loginVars>>

AccessSpec == AccessInit /\ [][AccessNext]_AccessVars /\ ElasticFairness
===============================================================================
