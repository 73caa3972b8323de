-------------------------- MODULE MCPublishedData ---------------------------
EXTENDS PublishedData, TLC

CONSTANTS k1, k2, a

\* Payloads that gain, lose and null a key of two.
SomeDocs == {(k1 :> a @@ k2 :> Absent), (k1 :> a @@ k2 :> a),
             (k1 :> Absent @@ k2 :> a), (k1 :> a @@ k2 :> Null)}
=============================================================================
