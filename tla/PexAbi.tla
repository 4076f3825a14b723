-------------------------------- MODULE PexAbi --------------------------------
(***************************************************************************)
(* The C ABI (PexReaderApi.h, PexReader.cpp): threads call its functions   *)
(* with handles, and each call leaves a thread-local status.               *)
(*                                                                         *)
(* A call is two steps.  Call is the entry of InvokeAbi, where the status  *)
(* is cleared; the function itself follows, its wrapper and the            *)
(* implementation it calls together, and it returns.  Between the two      *)
(* other threads run.                                                      *)
(*                                                                         *)
(* What an instance holds is cut down to what these functions treat apart: *)
(* the texts of its string table, and the strings of its header.  What     *)
(* loading, saving and conversion do is in PexData and PexText.            *)
(***************************************************************************)
EXTENDS Integers, Sequences

CONSTANTS
    Threads,            \* the threads of the caller
    Handles,            \* the addresses a new instance may get
    Texts,              \* the texts a string may have
    Utf8Length,         \* their length in bytes
    WideLength,         \* and in wchar_t: negative if it is not UTF-8
    Files,              \* what a file C_ReadPex accepts may hold
    HeaderCalls,        \* the functions that return a string of the header
    EmptyText,          \* the text of a header nothing was read into
    MaxStringLength,    \* the largest uint16_t
    Calls               \* bound: the calls the caller makes

\* The null handle, and an absent text, buffer or path.
Null == 0
None == -1

-----------------------------------------------------------------------------
\* PexReaderStatus
OK == 0
INVALID_ARGUMENT == 1
OUT_OF_RANGE == 2
BUFFER_TOO_SMALL == 3
IO_ERROR == 4
PARSE_ERROR == 5
OUT_OF_MEMORY == 6
INTERNAL_ERROR == 7

Status == 0..7

\* The calls a caller can make: the functions with the same parameters.
StringCalls == {"C_GetStringUtf8", "C_GetStringWide"}

Requests ==
    [name : {"C_CreateInstance"}, handle : {Null}]
    \cup [name : {"C_DestroyInstance", "C_Close"} \cup HeaderCalls,
          handle : Handles \cup {Null}]
    \cup [name : {"C_ReadPex", "C_SavePex"}, handle : Handles \cup {Null},
          hasPath : BOOLEAN]
    \cup [name : {"C_ModifyStringTable"}, handle : Handles \cup {Null},
          index : Nat, text : Texts \cup {None}]
    \cup [name : StringCalls, handle : Handles \cup {Null}, index : Nat,
          hasBuffer : BOOLEAN, capacity : Int]
    \cup [name : {"C_GetUserFlagInfo"}, handle : Handles \cup {Null}, inRange : BOOLEAN]

\* An instance.
Instances == [strings : Seq(Texts), header : [HeaderCalls -> Texts]]

ASSUME AbiAssumption ==
    /\ Null \notin Handles /\ None \notin Texts
    /\ Utf8Length \in [Texts -> Nat]
    /\ WideLength \in [Texts -> Int]
    /\ Files \subseteq Instances
    /\ EmptyText \in Texts
    /\ HeaderCalls \subseteq {"C_GetHeaderSourceFileName", "C_GetHeaderUsername",
                              "C_GetHeaderMachineName"}
    /\ MaxStringLength \in Nat
    /\ Calls \subseteq Requests

VARIABLES
    instance,       \* the instances, by handle
    status,         \* LastAbiError of each thread
    request,        \* the call each thread is in
    answer,         \* what the thread's last call was, and its return value
    buffer,         \* what that call wrote into the caller's text buffer
    headerBuffer,   \* the static Buf of each function that returns a string
    shown           \* for each thread and function, what it last returned

abiVars == <<instance, status, request, answer, buffer, headerBuffer, shown>>

Idle == [name |-> "idle"]
NoAnswer == [to |-> Idle, ret |-> None]

\* A PexData{}.
NewInstance == [strings |-> << >>, header |-> [f \in HeaderCalls |-> EmptyText]]

-----------------------------------------------------------------------------
(* Status and buffers *)

\* Variant: LastAbiError is not thread_local.
SetAbiErrorOfProcess(t, s) == status' = [u \in Threads |-> s]

\* LastAbiError is thread_local.
SetAbiError(t, s) == status' = [status EXCEPT ![t] = s]

\* Variant: the Buf of a function is not thread_local.
BufferOfProcess(t, f) == <<CHOOSE u \in Threads : TRUE, f>>

\* static thread_local std::wstring Buf, one in each function.
BufferOf(t, f) == <<t, f>>

\* What a function returns that has no string to show: a literal.
Literal(t, f) == [literal |-> TRUE, at |-> <<t, f>>, text |-> EmptyText]

\* Variant: the terminating NUL is not counted.
FitsWithoutNul(capacity, length) == capacity >= length

\* Buffer && BufferSize > Length: the text is written, and a NUL.
Fits(capacity, length) == capacity > length

\* CaptureAbiException: the status for each exception that arrives.
Captured ==
    [bad_alloc |-> OUT_OF_MEMORY, invalid_argument |-> INVALID_ARGUMENT,
     out_of_range |-> OUT_OF_RANGE, length_error |-> INTERNAL_ERROR]

\* The call of thread t returns r.
Return(t, r) ==
    /\ answer' = [answer EXCEPT ![t] = [to |-> request[t], ret |-> r]]
    /\ request' = [request EXCEPT ![t] = Idle]

\* It returns r and leaves an error.
Fail(t, r, s) == Return(t, r) /\ SetAbiError(t, s)

\* It returns r and leaves the status as it is.
Succeed(t, r) == Return(t, r) /\ UNCHANGED status

Busy(t) == request[t] # Idle

In(t, names) == request[t].name \in names

\* ValidateHandle
ValidHandle(t) == request[t].handle # Null

\* The instance of the call.
Inst(t) == instance[request[t].handle]

\* A handle that is not null is one the caller holds, and no other thread is
\* in a call with it.  [A duty of the caller: PexReaderApi.h promises nothing
\* about two calls on one handle at a time.]
MayUse(t, h) ==
    h # Null => /\ h \in DOMAIN instance
                /\ \A u \in Threads \ {t} : Busy(u) => request[u].handle # h

\* Variant: the status of the call before is kept.
CallWithoutClear(t) ==
    /\ ~Busy(t)
    /\ \E r \in Calls :
          /\ MayUse(t, r.handle)
          /\ request' = [request EXCEPT ![t] = r]
          /\ shown' = [shown EXCEPT ![t] = [f \in HeaderCalls |->
                          IF f = r.name THEN Literal(t, f) ELSE @[f]]]
    /\ answer' = [answer EXCEPT ![t] = NoAnswer]
    /\ buffer' = [buffer EXCEPT ![t] = None]
    /\ UNCHANGED <<instance, status, headerBuffer>>

\* InvokeAbi begins with ClearAbiError.
Call(t) ==
    /\ ~Busy(t)
    /\ \E r \in Calls :
          /\ MayUse(t, r.handle)
          /\ request' = [request EXCEPT ![t] = r]
          /\ shown' = [shown EXCEPT ![t] = [f \in HeaderCalls |->
                          IF f = r.name THEN Literal(t, f) ELSE @[f]]]
    /\ SetAbiError(t, OK)
    /\ answer' = [answer EXCEPT ![t] = NoAnswer]
    /\ buffer' = [buffer EXCEPT ![t] = None]
    /\ UNCHANGED <<instance, headerBuffer>>
-----------------------------------------------------------------------------
(* The life of an instance *)

CreateInstance(t) ==
    /\ In(t, {"C_CreateInstance"})
    /\ \E h \in Handles \ DOMAIN instance :
          /\ instance' = [x \in DOMAIN instance \cup {h} |->
                             IF x = h THEN NewInstance ELSE instance[x]]
          /\ Succeed(t, h)
    /\ UNCHANGED <<buffer, headerBuffer, shown>>

\* The implementation caught the exception and returned 0.
CannotCreateInstance(t) ==
    /\ In(t, {"C_CreateInstance"})
    /\ Fail(t, Null, OUT_OF_MEMORY)
    /\ UNCHANGED <<instance, buffer, headerBuffer, shown>>

\* Null is a no-op.
DestroyInstance(t) ==
    /\ In(t, {"C_DestroyInstance"})
    /\ instance' = [h \in DOMAIN instance \ {request[t].handle} |-> instance[h]]
    /\ Succeed(t, None)
    /\ UNCHANGED <<buffer, headerBuffer, shown>>

Close(t) ==
    /\ In(t, {"C_Close"})
    /\ instance' = IF ValidHandle(t)
                   THEN [instance EXCEPT ![request[t].handle] = NewInstance]
                   ELSE instance
    /\ Succeed(t, None)
    /\ UNCHANGED <<buffer, headerBuffer, shown>>

\* C_ReadPex or C_SavePex is given a null handle, or no path.
RefusePath(t) ==
    /\ In(t, {"C_ReadPex", "C_SavePex"})
    /\ ValidHandle(t) => ~request[t].hasPath
    /\ Fail(t, 0, INVALID_ARGUMENT)
    /\ UNCHANGED <<instance, buffer, headerBuffer, shown>>

\* Variant: a null handle is not refused.
ReadPexOfAnyHandle(t) ==
    /\ In(t, {"C_ReadPex"}) /\ request[t].hasPath
    /\ \E contents \in Files :
          instance' = [x \in DOMAIN instance \cup {request[t].handle} |->
                          IF x = request[t].handle THEN contents ELSE instance[x]]
    /\ Succeed(t, 1)
    /\ UNCHANGED <<buffer, headerBuffer, shown>>

ReadPex(t) ==
    /\ In(t, {"C_ReadPex"}) /\ ValidHandle(t) /\ request[t].hasPath
    /\ \E contents \in Files :
          instance' = [instance EXCEPT ![request[t].handle] = contents]
    /\ Succeed(t, 1)
    /\ UNCHANGED <<buffer, headerBuffer, shown>>

\* Whatever Load threw, a bad_alloc too, is a parse error.
CannotReadPex(t) ==
    /\ In(t, {"C_ReadPex"}) /\ ValidHandle(t) /\ request[t].hasPath
    /\ Fail(t, 0, PARSE_ERROR)
    /\ UNCHANGED <<instance, buffer, headerBuffer, shown>>

SavePex(t) ==
    /\ In(t, {"C_SavePex"}) /\ ValidHandle(t) /\ request[t].hasPath
    /\ Succeed(t, 1)
    /\ UNCHANGED <<instance, buffer, headerBuffer, shown>>

CannotSavePex(t) ==
    /\ In(t, {"C_SavePex"}) /\ ValidHandle(t) /\ request[t].hasPath
    /\ Fail(t, 0, IO_ERROR)
    /\ UNCHANGED <<instance, buffer, headerBuffer, shown>>

-----------------------------------------------------------------------------
(* The string table *)

RefuseModification(t) ==
    /\ In(t, {"C_ModifyStringTable"})
    /\ ValidHandle(t) => request[t].text = None
    /\ Fail(t, 0, INVALID_ARGUMENT)
    /\ UNCHANGED <<instance, buffer, headerBuffer, shown>>

\* The copy of the text throws, or PexData::ModifyStringTable does, before it
\* changes anything.
CannotModify(t) ==
    /\ In(t, {"C_ModifyStringTable"}) /\ ValidHandle(t) /\ request[t].text # None
    /\ LET inRange == request[t].index < Len(Inst(t).strings)
           fits == Utf8Length[request[t].text] <= MaxStringLength
       IN  \E exception \in {"bad_alloc", "out_of_range", "length_error"} :
              /\ exception = "out_of_range" => ~inRange
              /\ exception = "length_error" => inRange /\ ~fits
              /\ Fail(t, 0, Captured[exception])
    /\ UNCHANGED <<instance, buffer, headerBuffer, shown>>

ModifyStringTable(t) ==
    /\ In(t, {"C_ModifyStringTable"}) /\ ValidHandle(t) /\ request[t].text # None
    /\ request[t].index < Len(Inst(t).strings)
    /\ Utf8Length[request[t].text] <= MaxStringLength
    /\ instance' = [instance EXCEPT ![request[t].handle].strings[request[t].index + 1] =
                       request[t].text]
    /\ Succeed(t, 1)
    /\ UNCHANGED <<buffer, headerBuffer, shown>>

\* What C_GetStringUtf8 and C_GetStringWide check first.
StringRequestIsInvalid(t) ==
    \/ ~ValidHandle(t)
    \/ request[t].capacity < 0
    \/ ~request[t].hasBuffer /\ request[t].capacity # 0

RefuseStringRequest(t) ==
    /\ In(t, StringCalls) /\ StringRequestIsInvalid(t)
    /\ Fail(t, -1, INVALID_ARGUMENT)
    /\ UNCHANGED <<instance, buffer, headerBuffer, shown>>

\* The text asked for, and its length in the units of the call.
TextOf(t) == Inst(t).strings[request[t].index + 1]

LengthOf(t) ==
    IF In(t, {"C_GetStringUtf8"}) THEN Utf8Length[TextOf(t)] ELSE WideLength[TextOf(t)]

\* The implementation returned -1, before it copied anything, or a copy or
\* the conversion threw.
CannotGetString(t) ==
    /\ In(t, StringCalls) /\ ~StringRequestIsInvalid(t)
    /\ \E exception \in {"out_of_range", "invalid_argument", "bad_alloc"} :
          /\ (exception = "out_of_range") = (request[t].index >= Len(Inst(t).strings))
          /\ exception = "invalid_argument" => LengthOf(t) < 0
          /\ Fail(t, -1, Captured[exception])
    /\ UNCHANGED <<instance, buffer, headerBuffer, shown>>

\* The implementation writes the text where it fits; the wrapper then asks
\* anew whether the capacity was too small.
GetString(t) ==
    /\ In(t, StringCalls) /\ ~StringRequestIsInvalid(t)
    /\ request[t].index < Len(Inst(t).strings)
    /\ LengthOf(t) >= 0
    /\ buffer' = [buffer EXCEPT ![t] =
                     IF request[t].hasBuffer /\ Fits(request[t].capacity, LengthOf(t))
                     THEN TextOf(t) ELSE None]
    /\ IF request[t].hasBuffer /\ request[t].capacity <= LengthOf(t)
       THEN Fail(t, LengthOf(t), BUFFER_TOO_SMALL)
       ELSE Succeed(t, LengthOf(t))
    /\ UNCHANGED <<instance, headerBuffer, shown>>

-----------------------------------------------------------------------------
(* The strings of the header, and the other accessors *)

\* Without a handle, and when the copy throws, a literal is returned.
RefuseHeaderString(t) ==
    /\ In(t, HeaderCalls)
    /\ Fail(t, None, IF ValidHandle(t) THEN Captured["bad_alloc"] ELSE INVALID_ARGUMENT)
    /\ shown' = [shown EXCEPT ![t][request[t].name] = Literal(t, request[t].name)]
    /\ UNCHANGED <<instance, buffer, headerBuffer>>

\* The string is copied, and a pointer to the copy returned.
GetHeaderString(t) ==
    /\ In(t, HeaderCalls) /\ ValidHandle(t)
    /\ LET f == request[t].name
           text == Inst(t).header[f]
       IN  /\ headerBuffer' = [headerBuffer EXCEPT ![BufferOf(t, f)] = text]
           /\ shown' = [shown EXCEPT ![t][f] =
                            [literal |-> FALSE, at |-> BufferOf(t, f), text |-> text]]
    /\ Succeed(t, None)
    /\ UNCHANGED <<instance, buffer>>

\* C_GetUserFlagInfo, for the accessors that take an index: PEX_ABI_HANDLE_RETURN
\* refuses a null handle, and an index out of range is the returned 0 alone.
GetInfo(t) ==
    /\ In(t, {"C_GetUserFlagInfo"})
    /\ IF ValidHandle(t) THEN Succeed(t, IF request[t].inRange THEN 1 ELSE 0)
       ELSE Fail(t, 0, INVALID_ARGUMENT)
    /\ UNCHANGED <<instance, buffer, headerBuffer, shown>>

-----------------------------------------------------------------------------
AbiInit ==
    /\ instance = [h \in {} |-> NewInstance]
    /\ status = [t \in Threads |-> OK]
    /\ request = [t \in Threads |-> Idle]
    /\ answer = [t \in Threads |-> NoAnswer]
    /\ buffer = [t \in Threads |-> None]
    /\ headerBuffer = [b \in Threads \X HeaderCalls |-> EmptyText]
    /\ shown = [t \in Threads |-> [f \in HeaderCalls |-> Literal(t, f)]]

AbiStep(t) ==
    \/ Call(t)
    \/ CreateInstance(t) \/ CannotCreateInstance(t)
    \/ DestroyInstance(t) \/ Close(t)
    \/ RefusePath(t) \/ ReadPex(t) \/ CannotReadPex(t)
    \/ SavePex(t) \/ CannotSavePex(t)
    \/ RefuseModification(t) \/ CannotModify(t) \/ ModifyStringTable(t)
    \/ RefuseStringRequest(t) \/ CannotGetString(t) \/ GetString(t)
    \/ RefuseHeaderString(t) \/ GetHeaderString(t)
    \/ GetInfo(t)

AbiNext == \E t \in Threads : AbiStep(t)

AbiSpec == AbiInit /\ [][AbiNext]_abiVars

-----------------------------------------------------------------------------
(* Properties *)

\* Every variable has a value of its type; in particular a call is in
\* instances that exist.
AbiTypeOK ==
    /\ DOMAIN instance \subseteq Handles
    /\ \A h \in DOMAIN instance : instance[h] \in Instances
    /\ status \in [Threads -> Status]
    /\ request \in [Threads -> Calls \cup {Idle}]
    /\ \A t \in Threads : Busy(t) => request[t].handle \in DOMAIN instance \cup {Null}
    /\ buffer \in [Threads -> Texts \cup {None}]
    /\ headerBuffer \in [Threads \X HeaderCalls -> Texts]
    /\ answer \in [Threads -> [to : Calls \cup {Idle}, ret : Int \cup Handles]]
    /\ shown \in [Threads -> [HeaderCalls -> [literal : BOOLEAN,
                                              at : Threads \X HeaderCalls, text : Texts]]]

TellsOutcome(t) ==
    LET a == answer[t] IN
    /\ a.to.name = "C_CreateInstance" => (status[t] = OK <=> a.ret # Null)
    /\ a.to.name \in {"C_DestroyInstance", "C_Close"} => status[t] = OK
    /\ a.to.name \in {"C_ReadPex", "C_SavePex", "C_ModifyStringTable"} =>
          (status[t] = OK <=> a.ret = 1)
    /\ a.to.name \in StringCalls =>
          /\ status[t] \in {OK, BUFFER_TOO_SMALL} <=> a.ret >= 0
          /\ status[t] # OK => buffer[t] = None
          /\ status[t] = BUFFER_TOO_SMALL <=>
                a.ret >= 0 /\ a.to.hasBuffer /\ buffer[t] = None
    /\ a.to.name \in HeaderCalls =>
          (status[t] = OK <=> ~shown[t][a.to.name].literal)
    /\ a.to.name = "C_GetUserFlagInfo" => (status[t] = OK <=> a.to.handle # Null)

\* What a thread finds with C_GetLastStatus is about its own last call,
\* whatever other threads called since and meanwhile.  A call that creates,
\* reads, saves or modifies, and one for a header string, left OK exactly when
\* it succeeded; C_Close and C_DestroyInstance always, also for null.  A call
\* for a text left an error exactly when it returned -1, or was given a buffer
\* and wrote no text: then, and not for a length query, "too small".  An
\* accessor that takes an index left OK exactly when the handle was not null:
\* of the index its status says nothing.
StatusTellsOutcome == \A t \in Threads : TellsOutcome(t)

HoldsWholeText(t) ==
    LET a == answer[t] IN
    a.to.name \in StringCalls /\ a.ret >= 0 =>
        /\ buffer[t] # None =>
              /\ a.ret = IF a.to.name = "C_GetStringUtf8"
                         THEN Utf8Length[buffer[t]] ELSE WideLength[buffer[t]]
              /\ a.ret + 1 <= a.to.capacity
        /\ a.to.hasBuffer =>
              (buffer[t] = None <=> status[t] = BUFFER_TOO_SMALL)

\* A text is written whole, with its NUL, within the capacity the caller
\* gave, or not at all; a caller who gave a buffer learns from the status
\* which, though wrapper and implementation each compare for themselves.
BufferHoldsWholeText == \A t \in Threads : HoldsWholeText(t)

\* A header string stays what it was until the thread calls the same function
\* again (PexReaderApi.h:75-77): neither another thread, nor another function,
\* nor the end of the instance it came from changes it.
BorrowedTextStands ==
    \A t \in Threads, f \in HeaderCalls :
        LET s == shown[t][f] IN
        ~s.literal => headerBuffer[s.at] = s.text

\* "Status and error text are thread-local and describe the most recent ABI
\* call" (PexReaderApi.h:86-88): a call that returned its failure value left
\* an error.
StatusDescribesEveryCall ==
    \A t \in Threads :
        answer[t].to.name = "C_GetUserFlagInfo" /\ answer[t].ret = 0 => status[t] # OK
=============================================================================
