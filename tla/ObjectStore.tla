---------------------------- MODULE ObjectStore ----------------------------
(***************************************************************************)
(* The storage backend: put, get, delete of objects under keys that        *)
(* new_key makes fresh for every upload.  A put is BeginPut and FinishPut  *)
(* on the local backend, which writes a temporary file and renames it, and *)
(* PutObject on S3.  url() is pure and get() reads Readable.               *)
(***************************************************************************)
CONSTANT Key

VARIABLES objects,   \* keys whose object can be read
          parts      \* keys whose temporary file is on the disk

StoreTypeOK == objects \subseteq Key /\ parts \subseteq Key

StoreInit == objects = {} /\ parts = {}

\* StorageError is raised for any other key.
Readable(k) == k \in objects

\* What new_key promises: nothing has ever been stored there.
FreshKey(k) == k \notin objects \cup parts

\* put_object: visible at once, with nothing to leave behind.
PutObject(k) ==
    /\ objects' = objects \cup {k}
    /\ UNCHANGED parts

\* temporary.write_bytes(data)
BeginPut(k) ==
    /\ parts' = parts \cup {k}
    /\ UNCHANGED objects

\* temporary.replace(path)
FinishPut(k) ==
    /\ k \in parts
    /\ parts' = parts \ {k}
    /\ objects' = objects \cup {k}

\* Idempotent: an absent object is not an error, and a temporary file stays.
RemoveObject(k) ==
    /\ objects' = objects \ {k}
    /\ UNCHANGED parts
=============================================================================
