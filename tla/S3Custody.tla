------------------------------ MODULE S3Custody ------------------------------
(***************************************************************************)
(* S3ObjectLockCustody (evidence/s3_object_lock.py): conditional creation  *)
(* of content-addressed objects in a versioned bucket under COMPLIANCE     *)
(* retention, the reconciliation of a PutObject whose outcome is unknown,  *)
(* and the reopening of an exact version.                                  *)
(*                                                                         *)
(* The bucket is external.  It keeps the versions of a key in order, and a *)
(* request whose answer was lost may still be carried out, once, at any    *)
(* later time.  Someone outside may write under a key, hide an object      *)
(* behind a delete marker, and delete for good a version without lock.     *)
(***************************************************************************)
EXTENDS Absent, Naturals, Sequences, FiniteSets

CONSTANTS Clients,
          RetainUntil,  \* the retention date the frozen plan asks for
          MaxLost,      \* bound: requests whose answer is lost
          MaxOutside    \* bound: what is done to the bucket from outside

ASSUME S3CustodyConstants ==
    /\ MaxLost \in Nat /\ MaxOutside \in Nat
    /\ RetainUntil # Nil /\ Nil \notin Nat

VARIABLES bucket,   \* the entries of each key that has any, oldest first
          late,     \* the requests that may still be carried out: number and key
          put,      \* the put each client is making
          acked,    \* the acknowledgements returned: keys and versions
          lost, outside

bucketVars == <<bucket, late, put, acked, lost, outside>>

NoPut == [step |-> "none"]

S3Init ==
    /\ bucket = [key \in {} |-> <<>>]
    /\ late = {}
    /\ put = [c \in Clients |-> NoPut]
    /\ acked = {}
    /\ lost = 0
    /\ outside = 0

-------------------------------------------------------------------------------
(* The bucket (external). *)

\* An entry is a version, a delete marker, or the place of a version deleted for good.
Version(exact, retain) == [kind |-> "version", exact |-> exact, retain |-> retain]
DeleteMarker == [kind |-> "marker"]
Deleted == [kind |-> "deleted"]

Entries(key) == IF key \in DOMAIN bucket THEN bucket[key] ELSE <<>>

\* The version a request without VersionId reads: the newest entry, if that is a version.
Current(key) ==
    LET entries == Entries(key)
        left == {i \in DOMAIN entries : entries[i].kind # "deleted"}
        newest == CHOOSE i \in left : \A j \in left : j <= i
    IN IF left # {} /\ entries[newest].kind = "version" THEN newest ELSE Nil

Appended(key, entry) ==
    [k \in DOMAIN bucket \cup {key} |-> IF k = key THEN Append(Entries(key), entry) ELSE bucket[k]]

\* The condition If-None-Match "*": there is no current version.
Creates(key) == Current(key) = Nil

\* PutObject carried out: a new version under the retention asked for, or no effect.
Stored(key) == IF Creates(key) THEN Appended(key, Version(TRUE, RetainUntil)) ELSE bucket

\* A request whose answer was lost is carried out after all.
LandLate ==
    /\ \E request \in late :
          /\ late' = late \ {request}
          /\ bucket' = Stored(request[2])
    /\ UNCHANGED <<put, acked, lost, outside>>

\* Another writer puts other bytes, or the same ones without a lock.
ForeignPut(key) ==
    /\ outside < MaxOutside
    /\ \E entry \in {Version(FALSE, RetainUntil), Version(TRUE, Nil)} :
          bucket' = Appended(key, entry)
    /\ outside' = outside + 1
    /\ UNCHANGED <<late, put, acked, lost>>

HideObject(key) ==
    /\ outside < MaxOutside
    /\ Current(key) # Nil
    /\ bucket' = Appended(key, DeleteMarker)
    /\ outside' = outside + 1
    /\ UNCHANGED <<late, put, acked, lost>>

\* COMPLIANCE refuses this for a version under retention.
DeleteVersion(key) ==
    /\ \E i \in DOMAIN Entries(key) :
          /\ bucket[key][i].kind = "version" /\ bucket[key][i].retain = Nil
          /\ bucket' = [bucket EXCEPT ![key][i] = Deleted]
    /\ UNCHANGED <<late, put, acked, lost, outside>>

-------------------------------------------------------------------------------
(* put_file and put_bytes *)

\* Fault: the retention of the version is not compared.
SameBytes(entry) == entry.kind = "version" /\ entry.exact

\* _validate_remote_metadata on HeadObject and GetObject, and the bytes themselves.
VersionMatches(entry) ==
    /\ entry.kind = "version"
    /\ entry.exact
    /\ entry.retain = RetainUntil

\* The retention date is within the policy, the bucket is versioned and locked: the
\* request goes out.
SendPut(c, key) ==
    /\ put[c].step \in {"none", "acknowledged"}
    /\ put' = [put EXCEPT ![c] = [step |-> "sent", key |-> key]]
    /\ UNCHANGED <<bucket, late, acked, lost, outside>>

\* A file that is there and hashes to the digest expected, or bytes that do.
PutFile(c, key, present) == present /\ SendPut(c, key)
PutBytes(c, key) == SendPut(c, key)

Verifying(c, i) == put' = [put EXCEPT ![c] = [step |-> "verify", key |-> @.key, version |-> i]]

\* The answer names the version just created (_validate_put_response).
PutCreated(c) ==
    LET key == put[c].key IN
    /\ put[c].step = "sent"
    /\ Creates(key)
    /\ bucket' = Stored(key)
    /\ Verifying(c, Len(Entries(key)) + 1)
    /\ UNCHANGED <<late, acked, lost, outside>>

\* 412, or a conflict with a conditional request made at the same time.
PutConflicts(c) ==
    /\ put[c].step = "sent"
    /\ \/ ~Creates(put[c].key)
       \/ \E d \in Clients \ {c} : put[d].step = "sent" /\ put[d].key = put[c].key
    /\ put' = [put EXCEPT ![c].step = "reconcile"]
    /\ UNCHANGED <<bucket, late, acked, lost, outside>>

\* No answer: the request is carried out at once, later (LandLate), or never.
LoseAnswer(c) ==
    /\ put[c].step = "sent"
    /\ lost < MaxLost
    /\ lost' = lost + 1
    /\ late' = late \cup {<<lost, put[c].key>>}

PutAnswerLost(c) ==
    /\ LoseAnswer(c)
    /\ put' = [put EXCEPT ![c].step = "reconcile"]
    /\ UNCHANGED <<bucket, acked, outside>>

\* _reconcile_after_put_failure: the current version is looked up, and taken for this put
\* if it is the same object.  With no current version, or another object, the put fails.
ReconcilePut(c) ==
    /\ put[c].step = "reconcile"
    /\ Current(put[c].key) # Nil
    /\ Verifying(c, Current(put[c].key))
    /\ UNCHANGED <<bucket, late, acked, lost, outside>>

Acknowledgement(c) == <<put[c].key, put[c].version>>

\* _verify_version: HeadObject and GetObject of that version, and only then the
\* acknowledgement.
AcknowledgePut(c) ==
    LET key == put[c].key IN
    /\ put[c].step = "verify"
    /\ VersionMatches(Entries(key)[put[c].version])
    /\ acked' = acked \cup {Acknowledgement(c)}
    /\ put' = [put EXCEPT ![c].step = "acknowledged"]
    /\ UNCHANGED <<bucket, late, lost, outside>>

\* reverify_acknowledgement: the version of the acknowledgement, never the current one.
Reverified(key, version) == VersionMatches(Entries(key)[version])

PutStep(c) == PutCreated(c) \/ PutConflicts(c) \/ PutAnswerLost(c) \/ ReconcilePut(c)

Underway == {put[c].key : c \in {d \in Clients : put[d].step # "none"}}

BucketStep ==
    \/ LandLate
    \/ \E key \in DOMAIN bucket \cup Underway :
          ForeignPut(key) \/ HideObject(key) \/ DeleteVersion(key)
===============================================================================
