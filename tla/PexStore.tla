------------------------------ MODULE PexStore ------------------------------
(***************************************************************************)
(* What an instance promises its caller, without parser or writer: Load    *)
(* fails or replaces the contents as a whole; a file that Save completed   *)
(* gives the contents back; a file that Save did not complete is never     *)
(* loaded; nothing else changes the contents than replacing one string,    *)
(* closing the instance and losing the process.                            *)
(*                                                                         *)
(* The contents are the data of PexRecords in the form Normal gives them.  *)
(***************************************************************************)
EXTENDS PexRecords

VARIABLES
    contents,   \* the data of the instance
    file,       \* what is known of the file
    call,       \* the call that is running
    loaded      \* whether the last Load succeeded

storeVars == <<contents, file, call, loaded>>

\* The file came from elsewhere; it does not load; it holds data.
Unknown == [kind |-> "unknown", data |-> EmptyData]
Unreadable == [kind |-> "unreadable", data |-> EmptyData]
Holds(data) == [kind |-> "holds", data |-> data]

\* d but for the member `key`.
Without(d, key) ==
    [val |-> [k \in DOMAIN d.val \ {key} |-> d.val[k]],
     len |-> [k \in DOMAIN d.len \ {key} |-> d.len[k]]]

\* The file a completed Save leaves.  An instance that never loaded has no
\* magic, and what is saved of it does not load.
Saved == IF Value(contents, << >>, "magic") = Magic
         THEN Holds(contents) ELSE Unreadable

-----------------------------------------------------------------------------
ChooseFile ==
    /\ call = "none"
    /\ file' = Unknown
    /\ UNCHANGED <<contents, call, loaded>>

BeginLoad ==
    /\ call = "none"
    /\ call' = "loading"
    /\ loaded' = FALSE
    /\ UNCHANGED <<contents, file>>

\* While it runs, or before: a file may not be there at all.
LoadFails ==
    /\ call \in {"none", "loading"}
    /\ call' = "none"
    /\ loaded' = FALSE
    /\ UNCHANGED <<contents, file>>

\* Of an unknown file nothing is said but that it had the magic.
LoadSucceeds ==
    /\ call = "loading"
    /\ file.kind # "unreadable"
    /\ file.kind = "holds" => contents' = file.data
    /\ Value(contents', << >>, "magic") = Magic
    /\ call' = "none"
    /\ loaded' = TRUE
    /\ UNCHANGED file

ReplaceOneString ==
    /\ call = "none"
    /\ \E i \in 1..Value(contents, << >>, "count") :
          LET string == <<Child(<< >>, "strings", i), "bytes">>
          IN  Without(contents', string) = Without(contents, string)
    /\ UNCHANGED <<file, call, loaded>>

\* The old file is lost before the new one is complete.
BeginSave ==
    /\ call = "none"
    /\ call' = "saving"
    /\ file' = Unreadable
    /\ UNCHANGED <<contents, loaded>>

\* Completed or not: the caller is not told which.
EndSave ==
    /\ call = "saving"
    /\ call' = "none"
    /\ file' \in {file, Saved}
    /\ UNCHANGED <<contents, loaded>>

CloseInstance ==
    /\ call = "none"
    /\ contents' = EmptyData
    /\ UNCHANGED <<file, call, loaded>>

ProcessDies ==
    /\ call = "saving"
    /\ call' = "none"
    /\ contents' = EmptyData
    /\ file' \in {file, Saved}
    /\ loaded' = FALSE

StoreInit ==
    /\ contents = EmptyData /\ file = Unknown
    /\ call = "none" /\ loaded = FALSE

StoreNext ==
    \/ ChooseFile \/ BeginLoad \/ LoadFails \/ LoadSucceeds
    \/ ReplaceOneString \/ BeginSave \/ EndSave \/ CloseInstance \/ ProcessDies

StoreSpec == StoreInit /\ [][StoreNext]_storeVars
=============================================================================
