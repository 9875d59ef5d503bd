----------------------------- MODULE Attestation -----------------------------
(***************************************************************************)
(* The decision of verify_dsse_attestation (evidence/attestation.py): is   *)
(* an envelope attested under a trust policy at an instant.  Bytes, base64 *)
(* and the canonical JSON profile are left out: an envelope is its payload *)
(* type and its signatures, a policy its threshold and its trusted keys.   *)
(* A signature is genuine when it verifies under the public key of the key *)
(* it names.  Only "verified" or not is kept of the reason codes.          *)
(***************************************************************************)
EXTENDS Absent, Naturals, Sequences, FiniteSets

\* The validity window is half open and a revoked key names the instant it was revoked.
WellFormedKey(k) ==
    /\ k.until # Nil => k.until > k.from
    /\ k.status = "revoked" => k.revoked # Nil

\* Two keys of a policy share neither their id nor their public key.
WellFormedPolicy(policy) ==
    /\ policy.threshold >= 1
    /\ \A k \in policy.keys : WellFormedKey(k)
    /\ \A j, k \in policy.keys : j # k => j.id # k.id /\ j.material # k.material

KeyIds(policy) == {k.id : k \in policy.keys}

Signers(envelope) == {envelope.signatures[i].key : i \in DOMAIN envelope.signatures}

SelectedKeys(envelope, policy) == {k \in policy.keys : k.id \in Signers(envelope)}

Identities(keys) == {k.identity : k \in keys}

\* A disabled key is refused at every instant, a revoked one from its revocation on.
KeyIsEligible(k, type, instant) ==
    /\ type \in k.types
    /\ k.status # "disabled"
    /\ k.revoked # Nil => instant < k.revoked
    /\ k.from <= instant
    /\ k.until # Nil => instant < k.until

\* Every signature present must be known, eligible and genuine; the threshold counts
\* identities, and one identity may not sign twice, with whatever keys.
SignersAreDistinct(envelope, policy) ==
    /\ Cardinality(Signers(envelope)) = Len(envelope.signatures)
    /\ Signers(envelope) \subseteq KeyIds(policy)
    /\ Cardinality(Identities(SelectedKeys(envelope, policy))) = Len(envelope.signatures)

ThresholdIsMet(envelope, policy) ==
    Cardinality(Identities(SelectedKeys(envelope, policy))) >= policy.threshold

Verified(envelope, policy, type, instant) ==
    /\ WellFormedPolicy(policy)
    /\ envelope.type = type
    /\ SignersAreDistinct(envelope, policy)
    /\ \A k \in SelectedKeys(envelope, policy) : KeyIsEligible(k, type, instant)
    /\ \A i \in DOMAIN envelope.signatures : envelope.signatures[i].genuine
    /\ ThresholdIsMet(envelope, policy)
===============================================================================
