---------------------------- MODULE ObjectStorage ----------------------------
(***************************************************************************)
(* An object storage (storage/s3.py, the production backend): a flat map   *)
(* from keys to bodies, one prefix of one bucket.  A put replaces the      *)
(* whole body in one step; deleting a key that is not there is no error.   *)
(* Reading a key is stored[key], for the keys in its DOMAIN only.          *)
(***************************************************************************)

NoObjects == [key \in {} |-> key]

\* put_object.
PutObject(stored, key, body) ==
    [k \in DOMAIN stored \cup {key} |-> IF k = key THEN body ELSE stored[k]]

\* delete_object.
DeleteObject(stored, key) == [k \in DOMAIN stored \ {key} |-> stored[k]]

\* get_object of each of the keys that is there, one after the other.
GetObjects(stored, keys) == [k \in keys \cap DOMAIN stored |-> stored[k]]
=============================================================================
