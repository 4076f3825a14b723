------------------------------ MODULE PexData ------------------------------
(***************************************************************************)
(* One PexData instance and one file, from C_CreateInstance on: the calls  *)
(* of Load, ModifyStringTable, Save and Close in any order, by one thread  *)
(* at a time, and the crashes and failed writes that Save may meet.        *)
(*                                                                         *)
(* A write that Save makes stands in the file at once.  The writes that a  *)
(* crash or a full disk takes back from the buffer of the std::ofstream    *)
(* need no action of their own: the file is left as by a crash or a failed *)
(* write that much earlier.                                                *)
(***************************************************************************)
EXTENDS PexCodec

CONSTANTS
    NewStrings,     \* the strings ModifyStringTable is called with
    MaxSaves        \* bound: how often Save is called

ASSUME NewStringsAssumption ==
    /\ NewStrings \subseteq [length : Nat, value : Nat]
    /\ \A s \in NewStrings : s.length = 0 => s.value = 0
    /\ MaxSaves \in Nat

VARIABLES
    output,     \* the writes the running Save has still to make
    good,       \* the stream: once it is not good() it drops every write
    save,       \* how the last Save stands
    saves,      \* the calls of Save so far
    written     \* history: what the file is, and of which data

dataVars == <<vars, output, good, save, saves, written>>
saveVars == <<output, good, save, saves, written>>

NoWrites == << >>

\* The file came from elsewhere; or Save made it of `data`, and completed it
\* or left it torn, having failed or died before the last byte.
Written(how, data) == [how |-> how, data |-> data]
Foreign == Written("foreign", EmptyData)

Idle == load # "parsing" /\ save # "saving"

-----------------------------------------------------------------------------
(* Load *)

PlaceFileHere == Idle /\ PlaceFile /\ written' = Foreign
                   /\ UNCHANGED <<output, good, save, saves>>

CallLoad == Idle /\ (OpenFile \/ RefuseFile) /\ UNCHANGED saveVars

ContinueLoad == LoadStep /\ UNCHANGED saveVars

-----------------------------------------------------------------------------
(* ModifyStringTable *)

ReplaceString(i, s) ==
    LET string == Child(<< >>, "strings", i) IN
    [val |-> Put(inst.val, <<string, "bytes">>, s.value),
     len |-> Put(inst.len, <<string, "bytes">>, s.length)]

\* Variant: any length is taken.
ModifyStringTableUnchecked ==
    /\ Idle
    /\ \E i \in 1..Value(inst, << >>, "count"), s \in NewStrings :
          inst' = ReplaceString(i, s)
    /\ UNCHANGED <<disk, reader, agenda, parsed, load, loads, saveVars>>

\* An index out of range or a string too long is refused before anything
\* changes.
ModifyStringTable ==
    /\ Idle
    /\ \E i \in 1..Value(inst, << >>, "count"), s \in NewStrings :
          /\ s.length <= MaxStringLength
          /\ inst' = ReplaceString(i, s)
    /\ UNCHANGED <<disk, reader, agenda, parsed, load, loads, saveVars>>

-----------------------------------------------------------------------------
(* Save *)

\* WriteStringTable resizes the strings to their count, if they are fewer.
WithStringsOfCount(d) ==
    LET count == Value(d, << >>, "count")
    IN  IF Size(d, << >>, "strings") < count
        THEN WithSize(d, << >>, "strings", count) ELSE d

\* Opening the std::ofstream truncates the file.
OpenForSave ==
    /\ Idle /\ saves < MaxSaves
    /\ disk' = Unread(0)
    /\ output' = Writes(inst)
    /\ good' = TRUE
    /\ inst' = WithStringsOfCount(inst)
    /\ save' = "saving"
    /\ saves' = saves + 1
    /\ written' = Written("torn", inst)
    /\ UNCHANGED <<reader, agenda, parsed, load, loads>>

CannotOpenForSave ==
    /\ Idle /\ IoFaults /\ saves < MaxSaves
    /\ save' = "failed"
    /\ saves' = saves + 1
    /\ UNCHANGED <<vars, output, good, written>>

\* There is nothing left to write, or CheckedUInt16Length throws.
WritingEnds == output # NoWrites => Head(output) = LengthError

\* The next write, to a stream that is good.
Write ==
    /\ save = "saving" /\ good /\ ~WritingEnds
    /\ disk' = [bytes |-> disk.bytes + Head(output).width,
                at |-> Put(disk.at, disk.bytes, Head(output))]
    /\ output' = Tail(output)
    /\ UNCHANGED <<reader, agenda, parsed, inst, load, loads,
                   good, save, saves, written>>

\* The disk takes n bytes of the write at hand and no more; the stream turns
\* bad, and nothing looks at it.
WriteFails ==
    /\ IoFaults
    /\ save = "saving" /\ good /\ ~WritingEnds
    /\ good' = FALSE
    /\ \E n \in 0..(Head(output).width - 1) :
          disk' = [disk EXCEPT !.bytes = @ + n]
    /\ UNCHANGED <<reader, agenda, parsed, inst, load, loads,
                   output, save, saves, written>>

WriteDropped ==
    /\ save = "saving" /\ ~good /\ ~WritingEnds
    /\ output' = Tail(output)
    /\ UNCHANGED <<vars, good, save, saves, written>>

\* Variant: a Save whose stream is bad starts over.
CloseFileOrRetry ==
    /\ save = "saving" /\ WritingEnds
    /\ save' = IF ~good THEN "saving"
               ELSE IF output = NoWrites THEN "saved" ELSE "failed"
    /\ output' = IF good THEN NoWrites ELSE Writes(inst)
    /\ good' = TRUE
    /\ disk' = IF good THEN disk ELSE Unread(0)
    /\ written' = IF good /\ output = NoWrites
                  THEN Written("complete", inst) ELSE written
    /\ UNCHANGED <<reader, agenda, parsed, inst, load, loads, saves>>

\* The file is closed, as far as it was written if Save fails.  Whether the
\* stream is good is not asked.
CloseFile ==
    /\ save = "saving" /\ WritingEnds
    /\ save' = IF output = NoWrites THEN "saved" ELSE "failed"
    /\ output' = NoWrites
    /\ written' = IF good /\ output = NoWrites
                  THEN Written("complete", inst) ELSE written
    /\ UNCHANGED <<vars, good, saves>>

SaveStep == Write \/ WriteFails \/ WriteDropped \/ CloseFile

-----------------------------------------------------------------------------
\* Variant: the vectors are cleared and the counts forgotten.
CloseKeepingCounts ==
    /\ Idle
    /\ inst' = [inst EXCEPT !.len = EmptyData.len]
    /\ UNCHANGED <<disk, reader, agenda, parsed, load, loads, saveVars>>

\* C_Close: the instance becomes a default-constructed one.
Close ==
    /\ Idle
    /\ inst' = EmptyData
    /\ UNCHANGED <<disk, reader, agenda, parsed, load, loads, saveVars>>

\* The process dies and another one starts, with an instance of its own; a
\* part of the write at hand may have reached the file.
Crash ==
    /\ save = "saving"
    /\ IF good /\ ~WritingEnds
       THEN \E n \in 0..(Head(output).width - 1) :
               disk' = [disk EXCEPT !.bytes = @ + n]
       ELSE disk' = disk
    /\ written' = IF good /\ output = NoWrites
                  THEN Written("complete", inst) ELSE written
    /\ save' = "idle" /\ output' = NoWrites /\ good' = TRUE
    /\ inst' = EmptyData /\ load' = "idle"
    /\ UNCHANGED <<reader, agenda, parsed, loads, saves>>

-----------------------------------------------------------------------------
DataInit ==
    /\ Init
    /\ output = NoWrites /\ good = TRUE /\ save = "idle" /\ saves = 0
    /\ written = Foreign

DataNext ==
    \/ PlaceFileHere \/ CallLoad \/ ContinueLoad
    \/ ModifyStringTable
    \/ OpenForSave \/ CannotOpenForSave \/ SaveStep
    \/ Close \/ Crash

DataSpec ==
    DataInit /\ [][DataNext]_dataVars /\ WF_dataVars(ContinueLoad)
      /\ WF_dataVars(SaveStep)

-----------------------------------------------------------------------------
(* Properties *)

\* Every variable has a value of its type.
DataTypeOK ==
    /\ TypeOK
    /\ output \in Seq(Items)
    /\ good \in BOOLEAN
    /\ save \in {"idle", "saving", "saved", "failed"}
    /\ saves \in 0..MaxSaves
    /\ written.how \in {"foreign", "torn", "complete"} /\ IsData(written.data)

CompleteFile ==
    written.how = "complete" /\ Value(written.data, << >>, "magic") = Magic

\* What Save completed can be loaded again, whatever strings were replaced
\* since it was first read: no check of the parser refuses what the writer
\* makes, unless the file outgrew the size limit and is not opened at all.
SavedFileLoads == [][CompleteFile /\ load = "parsing" => load' # "failed"]_dataVars

\* Loading it gives the data that were saved.
ReloadReproduces ==
    [][CompleteFile /\ load = "parsing" /\ load' = "loaded" =>
          Normal(inst') = Normal(written.data)]_dataVars

\* A file that a crash or a failed write cut short, at whatever byte, is
\* never taken for a shorter script.
TornFileNeverLoads ==
    [][written.how = "torn" /\ load = "parsing" => load' # "loaded"]_dataVars

\* Save, having truncated the file, is never stopped by a string too long to
\* write: ModifyStringTable and Load let no such string into the instance.
SaveIsNeverCutShort == [][save = "saving" => save' # "failed"]_dataVars

\* The instance and its file, as the caller may think of them: of a torn
\* file, or one saved without the magic, nothing can be loaded.
StoredFile ==
    IF CompleteFile THEN [kind |-> "holds", data |-> Normal(written.data)]
    ELSE [kind |-> IF written.how = "foreign" THEN "unknown" ELSE "unreadable",
          data |-> EmptyData]

RunningCall ==
    IF load = "parsing" THEN "loading"
    ELSE IF save = "saving" THEN "saving" ELSE "none"

Store == INSTANCE PexStore
            WITH contents <- Normal(inst), file <- StoredFile,
                 call <- RunningCall, loaded <- load = "loaded"

\* Parser, writer and stream together implement the store: whatever the
\* order of the calls and wherever one fails, the caller sees whole contents
\* or the old ones, gets back what a completed Save wrote, and never a torn
\* file's.  In particular Save leaves the instance alone, although
\* WriteStringTable may resize its strings.
ImplementsStore == Store!StoreSpec

\* Every Save returns, or the process dies.
SaveReturns == (save = "saving") ~> (save # "saving")

\* C_SavePex returns 1, "1 on success, 0 on failure" (PexReader.cpp:138-139),
\* only when the file has every byte of what Save writes for the instance.
SuccessMeansSaved ==
    [][save = "saving" /\ save' = "saved" => disk'.bytes = Bytes(Writes(inst))]_dataVars
=============================================================================
