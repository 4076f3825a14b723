----------------------------- MODULE PexAbiProofs -----------------------------
(***************************************************************************)
(* Theorems about PexAbi, for any threads, instances and texts.            *)
(***************************************************************************)
EXTENDS PexAbi, SequenceTheorems, TLAPS

-----------------------------------------------------------------------------
(* Calls *)

\* What a call has, by its name.
LEMMA CallShape ==
    ASSUME NEW r \in Calls
    PROVE  /\ r # Idle /\ r.name # "idle" /\ r.handle \in Handles \cup {Null}
           /\ r.name = "C_ModifyStringTable" => r.index \in Nat /\ r.text \in Texts \cup {None}
           /\ r.name \in StringCalls =>
                 r.index \in Nat /\ r.hasBuffer \in BOOLEAN /\ r.capacity \in Int
<1>1. r \in Requests
  BY AbiAssumption
<1>2. Idle.name = "idle"
  BY DEF Idle
<1>3. CASE r \in [name : {"C_CreateInstance"}, handle : {Null}]
  BY <1>2, <1>3 DEF StringCalls
<1>4. CASE r \in [name : {"C_DestroyInstance", "C_Close"} \cup HeaderCalls,
                  handle : Handles \cup {Null}]
  BY <1>2, <1>4, AbiAssumption DEF StringCalls
<1>5. CASE r \in [name : {"C_ReadPex", "C_SavePex"}, handle : Handles \cup {Null},
                  hasPath : BOOLEAN]
  BY <1>2, <1>5 DEF StringCalls
<1>6. CASE r \in [name : {"C_ModifyStringTable"}, handle : Handles \cup {Null},
                  index : Nat, text : Texts \cup {None}]
  BY <1>2, <1>6 DEF StringCalls
<1>7. CASE r \in [name : StringCalls, handle : Handles \cup {Null}, index : Nat,
                  hasBuffer : BOOLEAN, capacity : Int]
  BY <1>2, <1>7 DEF StringCalls
<1>8. CASE r \in [name : {"C_GetUserFlagInfo"}, handle : Handles \cup {Null},
                  inRange : BOOLEAN]
  BY <1>2, <1>8 DEF StringCalls
<1> QED
  BY <1>1, <1>3, <1>4, <1>5, <1>6, <1>7, <1>8 DEF Requests

\* A thread whose request has a name is in a call.
LEMMA NamedIsBusy ==
    ASSUME AbiTypeOK, NEW t \in Threads, request[t].name # "idle"
    PROVE  /\ Busy(t) /\ request[t] \in Calls
           /\ request[t].handle \in DOMAIN instance \cup {Null}
<1>1. Idle.name = "idle"
  BY DEF Idle
<1>2. request[t] \in Calls \cup {Idle}
  BY DEF AbiTypeOK
<1>3. request[t] # Idle
  BY <1>1
<1> QED
  BY <1>2, <1>3 DEF AbiTypeOK, Busy

\* The calls of different functions are told apart by their names.
LEMMA Names ==
    /\ "idle" \notin StringCalls \cup HeaderCalls
    /\ HeaderCalls \cap (StringCalls \cup {"C_CreateInstance", "C_DestroyInstance", "C_Close",
                         "C_ReadPex", "C_SavePex", "C_ModifyStringTable", "C_GetUserFlagInfo"}) = {}
BY AbiAssumption DEF StringCalls

\* The actions that return from a call.
Answering(t) ==
    \/ CreateInstance(t) \/ CannotCreateInstance(t)
    \/ DestroyInstance(t) \/ Close(t)
    \/ RefusePath(t) \/ ReadPex(t) \/ CannotReadPex(t)
    \/ SavePex(t) \/ CannotSavePex(t)
    \/ RefuseModification(t) \/ CannotModify(t) \/ ModifyStringTable(t)
    \/ RefuseStringRequest(t) \/ CannotGetString(t) \/ GetString(t)
    \/ RefuseHeaderString(t) \/ GetHeaderString(t)
    \/ GetInfo(t)

\* The text a call asks for is one of the texts, and has its length.
LEMMA TextLength ==
    ASSUME AbiTypeOK, NEW t \in Threads, request[t].name \in StringCalls,
           ~StringRequestIsInvalid(t), request[t].index < Len(Inst(t).strings)
    PROVE  TextOf(t) \in Texts /\ LengthOf(t) \in Int
<1>1. /\ request[t] \in Calls
      /\ request[t].handle \in DOMAIN instance \cup {Null}
  BY NamedIsBusy, Names
<1>2. request[t].index \in Nat
  BY <1>1, CallShape
<1>3. Inst(t) \in Instances
  BY <1>1 DEF StringRequestIsInvalid, ValidHandle, Inst, AbiTypeOK
<1>4. Inst(t).strings \in Seq(Texts)
  BY <1>3 DEF Instances
<1>5. TextOf(t) \in Texts
  BY <1>2, <1>4 DEF TextOf
<1> QED
  BY <1>5, AbiAssumption DEF LengthOf

\* A call returns a value, and sets the status or leaves it.
LEMMA AnswerShape ==
    ASSUME AbiTypeOK, NEW t \in Threads, Answering(t)
    PROVE  /\ request[t].name # "idle"
           /\ \E r \in Int \cup Handles : Return(t, r)
           /\ UNCHANGED status \/ \E s \in Status : SetAbiError(t, s)
<1> USE DEF Fail, Succeed, In, Status, OK, Null, None, INVALID_ARGUMENT
<1>0. \A e \in {"bad_alloc", "invalid_argument", "out_of_range", "length_error"} :
         Captured[e] \in Status
  BY DEF Captured, OUT_OF_MEMORY, OUT_OF_RANGE, INTERNAL_ERROR
<1>1. CASE CreateInstance(t)
  BY <1>1 DEF CreateInstance
<1>2. CASE CannotCreateInstance(t)
  BY <1>2 DEF CannotCreateInstance, OUT_OF_MEMORY
<1>3. CASE DestroyInstance(t) \/ Close(t)
  BY <1>3 DEF DestroyInstance, Close
<1>4. CASE RefusePath(t) \/ RefuseModification(t)
  BY <1>4 DEF RefusePath, RefuseModification
<1>5. CASE ReadPex(t) \/ CannotReadPex(t)
  BY <1>5 DEF ReadPex, CannotReadPex, PARSE_ERROR
<1>6. CASE SavePex(t) \/ CannotSavePex(t)
  BY <1>6 DEF SavePex, CannotSavePex, IO_ERROR
<1>7. CASE CannotModify(t)
  BY <1>0, <1>7 DEF CannotModify
<1>8. CASE ModifyStringTable(t)
  BY <1>8 DEF ModifyStringTable
<1>9. CASE RefuseStringRequest(t)
  BY <1>9, Names DEF RefuseStringRequest
<1>10. CASE CannotGetString(t)
  BY <1>0, <1>10, Names DEF CannotGetString
<1>11. CASE GetString(t)
  <2>1. request[t].name \in StringCalls /\ request[t].name # "idle"
    BY <1>11, Names DEF GetString
  <2>2. LengthOf(t) \in Int
    BY <1>11, <2>1, TextLength DEF GetString
  <2> QED
    BY <1>11, <2>1, <2>2 DEF GetString, BUFFER_TOO_SMALL
<1>12. CASE RefuseHeaderString(t)
  BY <1>0, <1>12, Names DEF RefuseHeaderString
<1>13. CASE GetHeaderString(t)
  BY <1>13, Names DEF GetHeaderString
<1>14. CASE GetInfo(t)
  BY <1>14 DEF GetInfo
<1> QED
  BY <1>1, <1>2, <1>3, <1>4, <1>5, <1>6, <1>7, <1>8, <1>9, <1>10, <1>11, <1>12, <1>13, <1>14
     DEF Answering

\* What Return does to the threads' calls and answers.
LEMMA ReturnStep ==
    ASSUME AbiTypeOK, NEW t \in Threads, Answering(t)
    PROVE  /\ status' \in [Threads -> Status]
           /\ request' \in [Threads -> Calls \cup {Idle}]
           /\ answer' \in [Threads -> [to : Calls \cup {Idle}, ret : Int \cup Handles]]
           /\ request'[t] = Idle /\ answer'[t].to = request[t]
           /\ \A u \in Threads \ {t} : /\ request'[u] = request[u] /\ answer'[u] = answer[u]
                                       /\ status'[u] = status[u]
<1>1. PICK r \in Int \cup Handles : Return(t, r)
  BY AnswerShape
<1>2. request[t] \in Calls
  BY AnswerShape, NamedIsBusy
<1>3. UNCHANGED status \/ \E s \in Status : SetAbiError(t, s)
  BY AnswerShape
<1> QED
  BY <1>1, <1>2, <1>3 DEF AbiTypeOK, Return, SetAbiError

\* An instance of a call that has one.
LEMMA CallInstance ==
    ASSUME AbiTypeOK, NEW t \in Threads, request[t].name # "idle", ValidHandle(t)
    PROVE  request[t].handle \in DOMAIN instance /\ Inst(t) \in Instances
BY NamedIsBusy DEF ValidHandle, Inst, AbiTypeOK

\* An instance that was just made, or was closed.
LEMMA NewInstanceType == NewInstance \in Instances
<1>1. << >> \in Seq(Texts)
  OBVIOUS
<1> QED
  BY <1>1, AbiAssumption DEF NewInstance, Instances

\* The instances stay well typed, and only DestroyInstance ends one: its own.
LEMMA InstanceStep ==
    ASSUME AbiTypeOK, NEW t \in Threads, Answering(t)
    PROVE  /\ DOMAIN instance' \subseteq Handles
           /\ \A h \in DOMAIN instance' : instance'[h] \in Instances
           /\ DOMAIN instance \ {request[t].handle} \subseteq DOMAIN instance'
<1>1. DOMAIN instance \subseteq Handles /\ \A h \in DOMAIN instance : instance[h] \in Instances
  BY DEF AbiTypeOK
<1>2. CASE CreateInstance(t)
  BY <1>1, <1>2, NewInstanceType DEF CreateInstance
<1>3. CASE DestroyInstance(t)
  BY <1>1, <1>3 DEF DestroyInstance
<1>4. CASE Close(t)
  BY <1>1, <1>4, NewInstanceType DEF Close
<1>5. CASE ReadPex(t)
  BY <1>1, <1>5, AbiAssumption DEF ReadPex
<1>6. CASE ModifyStringTable(t)
  <2> DEFINE h == request[t].handle
             i == request[t].index + 1
             x == request[t].text
  <2>1. request[t].name = "C_ModifyStringTable" /\ ValidHandle(t) /\ x # None
    BY <1>6 DEF ModifyStringTable, In
  <2>2. h \in DOMAIN instance /\ instance[h] \in Instances
    BY <2>1, CallInstance DEF Inst
  <2>3. request[t] \in Calls
    BY <2>1, NamedIsBusy
  <2>4. request[t].index \in Nat /\ x \in Texts
    BY <2>1, <2>3, CallShape
  <2>5. request[t].index < Len(instance[h].strings)
    BY <1>6 DEF ModifyStringTable, Inst
  <2>6. instance[h].strings \in Seq(Texts)
    BY <2>2 DEF Instances
  <2>7. [instance[h].strings EXCEPT ![i] = x] \in Seq(Texts)
    BY <2>4, <2>5, <2>6
  <2>8. [instance[h] EXCEPT !.strings = [instance[h].strings EXCEPT ![i] = x]] \in Instances
    BY <2>2, <2>7 DEF Instances
  <2>9. instance' = [instance EXCEPT ![h] =
                       [instance[h] EXCEPT !.strings = [instance[h].strings EXCEPT ![i] = x]]]
    BY <1>6 DEF ModifyStringTable
  <2> QED
    BY <1>1, <2>2, <2>8, <2>9
<1>7. CASE UNCHANGED instance
  BY <1>1, <1>7
<1> QED
  BY <1>2, <1>3, <1>4, <1>5, <1>6, <1>7
     DEF Answering, CannotCreateInstance, RefusePath, CannotReadPex, SavePex, CannotSavePex,
         RefuseModification, CannotModify, RefuseStringRequest, CannotGetString, GetString,
         RefuseHeaderString, GetHeaderString, GetInfo

\* The buffers and what they show stay well typed, and belong to the thread.
LEMMA BufferStep ==
    ASSUME AbiTypeOK, NEW t \in Threads, Answering(t)
    PROVE  /\ buffer' \in [Threads -> Texts \cup {None}]
           /\ headerBuffer' \in [Threads \X HeaderCalls -> Texts]
           /\ shown' \in [Threads -> [HeaderCalls -> [literal : BOOLEAN,
                             at : Threads \X HeaderCalls, text : Texts]]]
           /\ \A u \in Threads \ {t} : /\ buffer'[u] = buffer[u] /\ shown'[u] = shown[u]
                                       /\ \A f \in HeaderCalls :
                                             headerBuffer'[<<u, f>>] = headerBuffer[<<u, f>>]
<1>1. CASE GetString(t)
  <2>1. request[t].name \in StringCalls
    BY <1>1 DEF GetString, In
  <2>2. TextOf(t) \in Texts
    BY <1>1, <2>1, TextLength DEF GetString
  <2> QED
    BY <1>1, <2>2 DEF GetString, AbiTypeOK
<1>2. CASE RefuseHeaderString(t)
  <2>1. request[t].name \in HeaderCalls
    BY <1>2 DEF RefuseHeaderString, In
  <2>2. Literal(t, request[t].name) \in [literal : BOOLEAN, at : Threads \X HeaderCalls,
                                         text : Texts]
    BY <2>1, AbiAssumption DEF Literal
  <2> QED
    BY <1>2, <2>1, <2>2 DEF RefuseHeaderString, AbiTypeOK
<1>3. CASE GetHeaderString(t)
  <2> DEFINE f == request[t].name
  <2>1. f \in HeaderCalls /\ f # "idle" /\ ValidHandle(t)
    BY <1>3, Names DEF GetHeaderString, In
  <2>2. Inst(t).header[f] \in Texts
    BY <2>1, CallInstance DEF Instances
  <2>3. <<t, f>> \in Threads \X HeaderCalls
    BY <2>1
  <2>4. [literal |-> FALSE, at |-> <<t, f>>, text |-> Inst(t).header[f]]
           \in [literal : BOOLEAN, at : Threads \X HeaderCalls, text : Texts]
    BY <2>2, <2>3
  <2>5. /\ headerBuffer' = [headerBuffer EXCEPT ![<<t, f>>] = Inst(t).header[f]]
        /\ shown' = [shown EXCEPT ![t][f] =
                        [literal |-> FALSE, at |-> <<t, f>>, text |-> Inst(t).header[f]]]
        /\ UNCHANGED buffer
    BY <1>3 DEF GetHeaderString, BufferOf
  <2> QED
    BY <2>1, <2>2, <2>3, <2>4, <2>5 DEF AbiTypeOK
<1>4. CASE UNCHANGED <<buffer, headerBuffer, shown>>
  BY <1>4 DEF AbiTypeOK
<1> QED
  BY <1>1, <1>2, <1>3, <1>4
     DEF Answering, CreateInstance, CannotCreateInstance, DestroyInstance, Close, RefusePath,
         ReadPex, CannotReadPex, SavePex, CannotSavePex, RefuseModification, CannotModify,
         ModifyStringTable, RefuseStringRequest, CannotGetString, GetInfo

-----------------------------------------------------------------------------
(* The inductive invariant *)

\* No two calls are in one instance.
Exclusive ==
    \A t, u \in Threads :
        t # u /\ Busy(t) /\ Busy(u) /\ request[t].handle # Null =>
            request[t].handle # request[u].handle

\* A call that has not returned has cleared the status, and written nothing.
Waiting(t) == Busy(t) => status[t] = OK /\ buffer[t] = None

\* What a thread shows is in its own buffer of the function.
Borrowed(t) ==
    \A f \in HeaderCalls :
        LET s == shown[t][f] IN
        ~s.literal => s.at = <<t, f>> /\ headerBuffer[<<t, f>>] = s.text

Settled(t) == Waiting(t) /\ TellsOutcome(t) /\ HoldsWholeText(t) /\ Borrowed(t)

AbiInv == AbiTypeOK /\ Exclusive /\ \A t \in Threads : Settled(t)

LEMMA InitAbiInv == AbiInit => AbiInv
<1> SUFFICES ASSUME AbiInit PROVE AbiInv
  OBVIOUS
<1>1. AbiTypeOK
  BY AbiAssumption DEF AbiInit, AbiTypeOK, Literal, Busy, NoAnswer, Status, OK, None
<1>2. Exclusive
  BY DEF AbiInit, Exclusive, Busy
<1>3. ASSUME NEW t \in Threads PROVE Settled(t)
  <2>1. answer[t].to.name = "idle"
    BY DEF AbiInit, NoAnswer, Idle
  <2>2. TellsOutcome(t) /\ HoldsWholeText(t)
    BY <2>1, Names DEF TellsOutcome, HoldsWholeText, StringCalls
  <2> QED
    BY <2>2 DEF AbiInit, Settled, Waiting, Busy, Borrowed, Literal
<1> QED
  BY <1>1, <1>2, <1>3 DEF AbiInv

\* The entry of a call.
LEMMA CallTakesPart ==
    ASSUME AbiInv, NEW t \in Threads, Call(t)
    PROVE  /\ AbiTypeOK' /\ Exclusive' /\ Settled(t)'
           /\ \A u \in Threads \ {t} : /\ request'[u] = request[u] /\ answer'[u] = answer[u]
                                       /\ status'[u] = status[u] /\ buffer'[u] = buffer[u]
                                       /\ shown'[u] = shown[u]
                                       /\ \A f \in HeaderCalls :
                                             headerBuffer'[<<u, f>>] = headerBuffer[<<u, f>>]
<1>1. PICK r \in Calls :
         /\ MayUse(t, r.handle)
         /\ request' = [request EXCEPT ![t] = r]
         /\ shown' = [shown EXCEPT ![t] = [f \in HeaderCalls |->
                         IF f = r.name THEN Literal(t, f) ELSE shown[t][f]]]
  BY DEF Call
<1>2. /\ status' = [status EXCEPT ![t] = OK] /\ answer' = [answer EXCEPT ![t] = NoAnswer]
      /\ buffer' = [buffer EXCEPT ![t] = None]
      /\ instance' = instance /\ headerBuffer' = headerBuffer
  BY DEF Call, SetAbiError
<1>3. AbiTypeOK
  BY DEF AbiInv
<1>4. r # Idle /\ r.handle \in DOMAIN instance \cup {Null}
  BY <1>1, CallShape DEF MayUse
<1>5. \A f \in HeaderCalls :
         Literal(t, f) \in [literal : BOOLEAN, at : Threads \X HeaderCalls, text : Texts]
  BY AbiAssumption DEF Literal
<1>6. shown' \in [Threads -> [HeaderCalls -> [literal : BOOLEAN,
                     at : Threads \X HeaderCalls, text : Texts]]]
  BY <1>1, <1>3, <1>5 DEF AbiTypeOK
<1>7. answer' \in [Threads -> [to : Calls \cup {Idle}, ret : Int \cup Handles]]
  BY <1>2, <1>3 DEF AbiTypeOK, NoAnswer, None
<1>8. AbiTypeOK'
  <2>1. request' \in [Threads -> Calls \cup {Idle}]
    BY <1>1, <1>3 DEF AbiTypeOK
  <2>2. \A u \in Threads : Busy(u)' => request'[u].handle \in DOMAIN instance' \cup {Null}
    BY <1>1, <1>2, <1>3, <1>4 DEF AbiTypeOK, Busy
  <2>3. status' \in [Threads -> Status]
    BY <1>2, <1>3 DEF AbiTypeOK, Status, OK
  <2>4. buffer' \in [Threads -> Texts \cup {None}]
    BY <1>2, <1>3 DEF AbiTypeOK
  <2> QED
    BY <1>2, <1>3, <1>6, <1>7, <2>1, <2>2, <2>3, <2>4 DEF AbiTypeOK
<1>9. Exclusive'
  <2> SUFFICES ASSUME NEW a \in Threads, NEW b \in Threads, a # b, Busy(a)', Busy(b)',
                      request'[a].handle # Null
               PROVE  request'[a].handle # request'[b].handle
    BY DEF Exclusive
  <2> USE <1>1, <1>3 DEF AbiTypeOK, Busy, MayUse
  <2>1. CASE a = t
    BY <2>1
  <2>2. CASE b = t
    BY <2>2
  <2>3. CASE a # t /\ b # t
    BY <2>3 DEF AbiInv, Exclusive
  <2> QED
    BY <2>1, <2>2, <2>3
<1>10. Settled(t)'
  <2>1. answer'[t].to.name = "idle"
    BY <1>2, <1>3 DEF AbiTypeOK, NoAnswer, Idle
  <2>2. TellsOutcome(t)' /\ HoldsWholeText(t)'
    BY <2>1, Names DEF TellsOutcome, HoldsWholeText, StringCalls
  <2>3. Waiting(t)'
    BY <1>2, <1>3 DEF AbiTypeOK, Waiting
  <2>4. Borrowed(t)
    BY DEF AbiInv, Settled
  <2>5. Borrowed(t)'
    BY <1>1, <1>2, <1>3, <2>4 DEF AbiTypeOK, Borrowed, Literal
  <2> QED
    BY <2>2, <2>3, <2>5 DEF Settled
<1> QED
  BY <1>1, <1>2, <1>3, <1>8, <1>9, <1>10 DEF AbiTypeOK

\* What no step of another thread touches stays settled.
LEMMA OthersSettled ==
    ASSUME NEW u \in Threads, Settled(u),
           request'[u] = request[u], answer'[u] = answer[u], status'[u] = status[u],
           buffer'[u] = buffer[u], shown'[u] = shown[u],
           \A f \in HeaderCalls : headerBuffer'[<<u, f>>] = headerBuffer[<<u, f>>]
    PROVE  Settled(u)'
<1>1. TellsOutcome(u)'
  BY DEF Settled, TellsOutcome
<1>2. HoldsWholeText(u)'
  BY DEF Settled, HoldsWholeText
<1>3. Waiting(u)' /\ Borrowed(u)'
  BY DEF Settled, Waiting, Busy, Borrowed
<1> QED
  BY <1>1, <1>2, <1>3 DEF Settled

\* The types hold after every answer, and the instances of the other calls stay.
LEMMA AnswerTypes ==
    ASSUME AbiTypeOK, Exclusive, NEW t \in Threads, Answering(t)
    PROVE  AbiTypeOK' /\ Exclusive'
<1>1. \A u \in Threads : Busy(u)' => u # t /\ Busy(u) /\ request'[u] = request[u]
  BY ReturnStep DEF Busy
<1>2. Busy(t)
  BY AnswerShape, NamedIsBusy
<1>3. ASSUME NEW u \in Threads, Busy(u)'
      PROVE  request'[u].handle \in DOMAIN instance' \cup {Null}
  <2>1. request[u].handle \in DOMAIN instance \cup {Null}
    BY <1>1, <1>3 DEF AbiTypeOK
  <2>2. request[u].handle # Null => request[u].handle # request[t].handle
    BY <1>1, <1>2, <1>3 DEF Exclusive
  <2> QED
    BY <1>1, <1>3, <2>1, <2>2, InstanceStep
<1>4. AbiTypeOK'
  BY <1>3, ReturnStep, InstanceStep, BufferStep DEF AbiTypeOK
<1>5. Exclusive'
  BY <1>1 DEF Exclusive
<1> QED
  BY <1>4, <1>5

\* A call that failed left an error, and nothing in the caller's buffer.
LEMMA FailureIsSettled ==
    ASSUME AbiInv, NEW t \in Threads, Answering(t), UNCHANGED <<buffer, headerBuffer, shown>>,
           NEW r \in {None, 0}, NEW s \in Status \ {OK, BUFFER_TOO_SMALL}, Fail(t, r, s),
           request[t].name \notin HeaderCalls, request[t].name \in StringCalls => r = None,
           request[t].name = "C_CreateInstance" => r = Null,
           request[t].name \notin {"C_DestroyInstance", "C_Close"},
           request[t].name = "C_GetUserFlagInfo" => request[t].handle = Null
    PROVE  Settled(t)'
<1>1. /\ answer'[t] = [to |-> request[t], ret |-> r] /\ request'[t] = Idle /\ status'[t] = s
      /\ buffer'[t] = None
  BY AnswerShape, NamedIsBusy
     DEF AbiInv, AbiTypeOK, Fail, Return, SetAbiError, Settled, Waiting
<1>2. TellsOutcome(t)'
  <2>1. answer'[t].to.name = request[t].name /\ answer'[t].ret = r
    BY <1>1
  <2>2. status'[t] \notin {OK, BUFFER_TOO_SMALL} /\ r # 1 /\ r \in Int
    BY <1>1 DEF None
  <2>3. request[t].name = "C_CreateInstance" => r = Null
    OBVIOUS
  <2>4. request[t].name \in StringCalls => ~(r >= 0)
    BY DEF None
  <2> QED
    BY <1>1, <2>1, <2>2, <2>3, <2>4 DEF TellsOutcome
<1>3. HoldsWholeText(t)'
  BY <1>1 DEF HoldsWholeText, None, StringCalls
<1>4. Waiting(t)' /\ Borrowed(t)'
  BY <1>1 DEF AbiInv, Settled, Waiting, Busy, Borrowed
<1> QED
  BY <1>2, <1>3, <1>4 DEF Settled

\* A call that succeeded left no error.
LEMMA SuccessIsSettled ==
    ASSUME AbiInv, NEW t \in Threads, Answering(t), UNCHANGED <<buffer, headerBuffer, shown>>,
           NEW r \in Int \cup Handles, Succeed(t, r),
           request[t].name \notin HeaderCalls \cup StringCalls,
           request[t].name = "C_CreateInstance" => r # Null,
           request[t].name \in {"C_ReadPex", "C_SavePex", "C_ModifyStringTable"} => r = 1,
           request[t].name = "C_GetUserFlagInfo" => request[t].handle # Null
    PROVE  Settled(t)'
<1>1. /\ answer'[t] = [to |-> request[t], ret |-> r] /\ request'[t] = Idle /\ status'[t] = OK
  BY AnswerShape, NamedIsBusy
     DEF AbiInv, AbiTypeOK, Succeed, Return, Settled, Waiting
<1>2. TellsOutcome(t)'
  BY <1>1 DEF TellsOutcome
<1>3. HoldsWholeText(t)'
  BY <1>1 DEF HoldsWholeText
<1>4. Waiting(t)' /\ Borrowed(t)'
  BY <1>1 DEF AbiInv, Settled, Waiting, Busy, Borrowed
<1> QED
  BY <1>2, <1>3, <1>4 DEF Settled

\* The string that was asked for, or its length.
LEMMA GetStringIsSettled ==
    ASSUME AbiInv, NEW t \in Threads, GetString(t)
    PROVE  Settled(t)'
<1> DEFINE n == LengthOf(t)
           r == request[t]
<1>1. /\ r.name \in StringCalls /\ r.name # "idle" /\ ~StringRequestIsInvalid(t)
      /\ r.index < Len(Inst(t).strings) /\ n >= 0
  BY Names DEF GetString, In
<1>2. TextOf(t) \in Texts /\ n \in Int /\ r \in Calls /\ Busy(t)
  BY <1>1, TextLength, NamedIsBusy DEF AbiInv
<1>3. r.hasBuffer \in BOOLEAN /\ r.capacity \in Int
  BY <1>1, <1>2, CallShape
<1>4. status[t] = OK /\ TextOf(t) # None
  BY <1>2, AbiAssumption DEF AbiInv, Settled, Waiting
<1>5. answer'[t] = [to |-> r, ret |-> n] /\ request'[t] = Idle
  BY DEF GetString, Fail, Succeed, Return, AbiInv, AbiTypeOK
<1>6. buffer'[t] = IF r.hasBuffer /\ r.capacity > n THEN TextOf(t) ELSE None
  BY DEF GetString, Fits, AbiInv, AbiTypeOK
<1>7. status'[t] = IF r.hasBuffer /\ r.capacity <= n THEN BUFFER_TOO_SMALL ELSE OK
  BY <1>4 DEF GetString, Fail, Succeed, SetAbiError, AbiInv, AbiTypeOK
<1>8. n = IF r.name = "C_GetStringUtf8" THEN Utf8Length[TextOf(t)] ELSE WideLength[TextOf(t)]
  BY DEF LengthOf, In
<1> HIDE DEF n, r
<1>9. TellsOutcome(t)'
  <2>1. answer'[t].to.name = r.name /\ answer'[t].ret = n
    BY <1>5
  <2>2. status'[t] \in {OK, BUFFER_TOO_SMALL} /\ n >= 0
    BY <1>1, <1>7
  <2>3. /\ status'[t] # OK => buffer'[t] = None
        /\ status'[t] = BUFFER_TOO_SMALL <=> r.hasBuffer /\ buffer'[t] = None
    BY <1>2, <1>3, <1>4, <1>6, <1>7 DEF OK, BUFFER_TOO_SMALL
  <2>4. r.name \notin HeaderCalls /\ r.name \notin {"C_CreateInstance", "C_ReadPex", "C_SavePex",
                                                    "C_ModifyStringTable"}
    BY <1>1, Names DEF StringCalls
  <2>5. /\ r.name \notin {"C_DestroyInstance", "C_Close", "C_GetUserFlagInfo"}
        /\ answer'[t].to.hasBuffer = r.hasBuffer
    BY <1>1, <1>5 DEF StringCalls
  <2> QED
    BY <2>1, <2>2, <2>3, <2>4, <2>5 DEF TellsOutcome
<1>10. HoldsWholeText(t)'
  <2>1. answer'[t].to = r /\ answer'[t].ret = n
    BY <1>5
  <2>2. buffer'[t] # None => buffer'[t] = TextOf(t) /\ n + 1 <= r.capacity
    BY <1>2, <1>3, <1>6
  <2>3. r.hasBuffer => (buffer'[t] = None <=> status'[t] = BUFFER_TOO_SMALL)
    BY <1>2, <1>3, <1>4, <1>6, <1>7 DEF OK, BUFFER_TOO_SMALL
  <2> QED
    BY <1>8, <2>1, <2>2, <2>3 DEF HoldsWholeText
<1>11. Waiting(t)' /\ Borrowed(t)'
  BY <1>5 DEF GetString, AbiInv, Settled, Waiting, Busy, Borrowed
<1> QED
  BY <1>9, <1>10, <1>11 DEF Settled

\* The pointer to a string of the header, or to a literal.
LEMMA HeaderStringIsSettled ==
    ASSUME AbiInv, NEW t \in Threads, GetHeaderString(t) \/ RefuseHeaderString(t)
    PROVE  Settled(t)'
<1> DEFINE f == request[t].name
<1>1. f \in HeaderCalls /\ f # "idle"
  BY Names DEF GetHeaderString, RefuseHeaderString, In
<1>2. f \notin StringCalls \cup {"C_CreateInstance", "C_DestroyInstance", "C_Close",
                                 "C_ReadPex", "C_SavePex", "C_ModifyStringTable",
                                 "C_GetUserFlagInfo"}
  BY <1>1, Names
<1>3. status[t] = OK
  BY <1>1, NamedIsBusy DEF AbiInv, Settled, Waiting
<1>4. Borrowed(t)
  BY DEF AbiInv, Settled
<1>5. answer'[t].to = request[t] /\ request'[t] = Idle
  BY ReturnStep DEF AbiInv, Answering
<1>6. Waiting(t)' /\ HoldsWholeText(t)'
  BY <1>2, <1>5 DEF Waiting, Busy, HoldsWholeText
<1>7. CASE GetHeaderString(t)
  <2>1. /\ headerBuffer' = [headerBuffer EXCEPT ![<<t, f>>] = Inst(t).header[f]]
        /\ shown' = [shown EXCEPT ![t][f] =
                        [literal |-> FALSE, at |-> <<t, f>>, text |-> Inst(t).header[f]]]
        /\ status' = status
    BY <1>7 DEF GetHeaderString, BufferOf, Succeed
  <2>2. shown'[t][f].literal = FALSE
    BY <1>1, <2>1 DEF AbiInv, AbiTypeOK
  <2>3. TellsOutcome(t)'
    BY <1>2, <1>3, <1>5, <2>1, <2>2 DEF TellsOutcome
  <2>4. Borrowed(t)'
    BY <1>1, <1>4, <2>1 DEF AbiInv, AbiTypeOK, Borrowed
  <2> QED
    BY <1>6, <2>3, <2>4 DEF Settled
<1>8. CASE RefuseHeaderString(t)
  <2>1. /\ shown' = [shown EXCEPT ![t][f] = Literal(t, f)] /\ headerBuffer' = headerBuffer
        /\ \E s \in {OUT_OF_MEMORY, INVALID_ARGUMENT} : status' = [status EXCEPT ![t] = s]
    BY <1>8 DEF RefuseHeaderString, Fail, SetAbiError, Captured
  <2>2. shown'[t][f].literal = TRUE
    BY <1>1, <2>1 DEF AbiInv, AbiTypeOK, Literal
  <2>3. status'[t] # OK
    BY <2>1 DEF AbiInv, AbiTypeOK, OK, OUT_OF_MEMORY, INVALID_ARGUMENT
  <2>4. TellsOutcome(t)'
    BY <1>2, <1>5, <2>2, <2>3 DEF TellsOutcome
  <2>5. Borrowed(t)'
    BY <1>1, <1>4, <2>1 DEF AbiInv, AbiTypeOK, Borrowed, Literal
  <2> QED
    BY <1>6, <2>4, <2>5 DEF Settled
<1> QED
  BY <1>7, <1>8

\* The thread that was answered is settled.
LEMMA AnswerIsSettled ==
    ASSUME AbiInv, NEW t \in Threads, Answering(t)
    PROVE  Settled(t)'
<1>0. \A f \in HeaderCalls : f \notin StringCalls \cup {"C_CreateInstance", "C_DestroyInstance",
         "C_Close", "C_ReadPex", "C_SavePex", "C_ModifyStringTable", "C_GetUserFlagInfo"}
  BY Names
<1> USE DEF In, Status, OK, BUFFER_TOO_SMALL, INVALID_ARGUMENT
<1>1. CASE CreateInstance(t)
  <2>1. PICK h \in Handles : Succeed(t, h)
    BY <1>1 DEF CreateInstance
  <2> QED
    BY <1>0, <1>1, <2>1, SuccessIsSettled, AbiAssumption DEF CreateInstance, StringCalls
<1>2. CASE CannotCreateInstance(t)
  BY <1>0, <1>2, FailureIsSettled DEF CannotCreateInstance, OUT_OF_MEMORY, StringCalls, Null
<1>3. CASE DestroyInstance(t)
  BY <1>0, <1>3, SuccessIsSettled DEF DestroyInstance, StringCalls, None
<1>4. CASE Close(t)
  BY <1>0, <1>4, SuccessIsSettled DEF Close, StringCalls, None
<1>5. CASE RefusePath(t)
  BY <1>0, <1>5, FailureIsSettled DEF RefusePath, StringCalls
<1>6. CASE ReadPex(t)
  BY <1>0, <1>6, SuccessIsSettled DEF ReadPex, StringCalls
<1>7. CASE CannotReadPex(t)
  BY <1>0, <1>7, FailureIsSettled DEF CannotReadPex, PARSE_ERROR, StringCalls
<1>8. CASE SavePex(t)
  BY <1>0, <1>8, SuccessIsSettled DEF SavePex, StringCalls
<1>9. CASE CannotSavePex(t)
  BY <1>0, <1>9, FailureIsSettled DEF CannotSavePex, IO_ERROR, StringCalls
<1>10. CASE RefuseModification(t)
  BY <1>0, <1>10, FailureIsSettled DEF RefuseModification, StringCalls
<1>11. CASE CannotModify(t)
  <2>1. PICK e \in {"out_of_range", "length_error", "bad_alloc"} : Fail(t, 0, Captured[e])
    BY <1>11 DEF CannotModify
  <2>2. Captured[e] \in Status \ {OK, BUFFER_TOO_SMALL}
    BY <2>1 DEF Captured, OUT_OF_MEMORY, OUT_OF_RANGE, INTERNAL_ERROR
  <2> QED
    BY <1>0, <1>11, <2>1, <2>2, FailureIsSettled DEF CannotModify, StringCalls
<1>12. CASE ModifyStringTable(t)
  BY <1>0, <1>12, SuccessIsSettled DEF ModifyStringTable, StringCalls
<1>13. CASE RefuseStringRequest(t)
  BY <1>0, <1>13, FailureIsSettled DEF RefuseStringRequest, StringCalls, None
<1>14. CASE CannotGetString(t)
  <2>1. PICK e \in {"out_of_range", "invalid_argument", "bad_alloc"} : Fail(t, -1, Captured[e])
    BY <1>14 DEF CannotGetString
  <2>2. Captured[e] \in Status \ {OK, BUFFER_TOO_SMALL}
    BY <2>1 DEF Captured, OUT_OF_MEMORY, OUT_OF_RANGE
  <2> QED
    BY <1>0, <1>14, <2>1, <2>2, FailureIsSettled DEF CannotGetString, StringCalls, None
<1>15. CASE GetString(t)
  BY <1>15, GetStringIsSettled
<1>16. CASE RefuseHeaderString(t) \/ GetHeaderString(t)
  BY <1>16, HeaderStringIsSettled
<1>17. CASE GetInfo(t)
  <2>1. request[t].name = "C_GetUserFlagInfo" /\ UNCHANGED <<buffer, headerBuffer, shown>>
    BY <1>17 DEF GetInfo
  <2>2. \/ request[t].handle = Null /\ Fail(t, 0, INVALID_ARGUMENT)
        \/ request[t].handle # Null /\ \E r \in {0, 1} : Succeed(t, r)
    BY <1>17 DEF GetInfo, ValidHandle
  <2>3. CASE request[t].handle = Null /\ Fail(t, 0, INVALID_ARGUMENT)
    BY <1>0, <2>1, <2>3, FailureIsSettled DEF StringCalls
  <2>4. CASE request[t].handle # Null /\ \E r \in {0, 1} : Succeed(t, r)
    BY <1>0, <2>1, <2>4, SuccessIsSettled DEF StringCalls
  <2> QED
    BY <2>2, <2>3, <2>4
<1> QED
  BY <1>1, <1>2, <1>3, <1>4, <1>5, <1>6, <1>7, <1>8, <1>9, <1>10, <1>11, <1>12, <1>13, <1>14,
     <1>15, <1>16, <1>17 DEF Answering

\* The invariant is inductive.
LEMMA StepAbiInv == AbiInv /\ [AbiNext]_abiVars => AbiInv'
<1> SUFFICES ASSUME AbiInv, [AbiNext]_abiVars PROVE AbiInv'
  OBVIOUS
<1>1. CASE UNCHANGED abiVars
  BY <1>1 DEF abiVars, AbiInv, AbiTypeOK, Exclusive, Settled, Waiting, TellsOutcome,
              HoldsWholeText, Borrowed, Busy
<1>2. ASSUME NEW t \in Threads, AbiStep(t)
      PROVE  AbiInv'
  <2>1. Call(t) \/ Answering(t)
    BY <1>2 DEF AbiStep, Answering
  <2>2. /\ AbiTypeOK' /\ Exclusive' /\ Settled(t)'
        /\ \A u \in Threads \ {t} : /\ request'[u] = request[u] /\ answer'[u] = answer[u]
                                    /\ status'[u] = status[u] /\ buffer'[u] = buffer[u]
                                    /\ shown'[u] = shown[u]
                                    /\ \A f \in HeaderCalls :
                                          headerBuffer'[<<u, f>>] = headerBuffer[<<u, f>>]
    <3>1. CASE Call(t)
      BY <3>1, CallTakesPart
    <3>2. CASE Answering(t)
      BY <3>2, AnswerTypes, AnswerIsSettled, ReturnStep, BufferStep DEF AbiInv
    <3> QED
      BY <2>1, <3>1, <3>2
  <2>3. \A u \in Threads \ {t} : Settled(u)'
    BY <2>2, OthersSettled DEF AbiInv
  <2> QED
    BY <2>2, <2>3 DEF AbiInv
<1> QED
  BY <1>1, <1>2 DEF AbiNext

LEMMA AbiInvAlways == AbiSpec => []AbiInv
BY InitAbiInv, StepAbiInv, PTL DEF AbiSpec

-----------------------------------------------------------------------------
(* Theorems *)

\* Every variable keeps its type; no call is in an instance that was
\* destroyed, if the caller destroys none that another call is in.
THEOREM AbiTypeCorrect == AbiSpec => []AbiTypeOK
<1>1. AbiInv => AbiTypeOK
  BY DEF AbiInv
<1> QED
  BY <1>1, AbiInvAlways, PTL

\* C_GetLastStatus tells each thread of its own last call, as far as the
\* functions set the status: of an accessor that takes an index, no more than
\* whether the handle was null.
THEOREM StatusIsRight == AbiSpec => []StatusTellsOutcome
<1>1. AbiInv => StatusTellsOutcome
  BY DEF AbiInv, Settled, StatusTellsOutcome
<1> QED
  BY <1>1, AbiInvAlways, PTL

\* C_GetStringUtf8 and C_GetStringWide write a whole text or none, for every
\* capacity and length.
THEOREM BufferIsRight == AbiSpec => []BufferHoldsWholeText
<1>1. AbiInv => BufferHoldsWholeText
  BY DEF AbiInv, Settled, BufferHoldsWholeText
<1> QED
  BY <1>1, AbiInvAlways, PTL

\* A header string stands until the thread asks the same function again.
THEOREM BorrowedTextIsRight == AbiSpec => []BorrowedTextStands
<1>1. AbiInv => BorrowedTextStands
  BY DEF AbiInv, Settled, Borrowed, BorrowedTextStands
<1> QED
  BY <1>1, AbiInvAlways, PTL
=============================================================================
