# A verification of PexReader

PexReader is a C++ library with a C interface that loads a compiled Papyrus
script (a `.pex` file), lets its strings be replaced, and saves it. This
directory holds a TLA+ model of the loader, the writer, the life of an
instance, the reading of its strings and the C interface, the TLC runs that
check it on small instances, and TLAPS proofs of what holds for every file,
every string and every number of threads. `PROJECT.json` maps each definition to
the lines it stands for.

## The system

| Component | Source | State | Operations |
|---|---|---|---|
| Bounded reader | `PexReader/Record.h` | `_size`, `_position`, `_aggregateElements` | `Read`, `ValidateCount`, `ValidateByteLength` |
| Records | `PexHeader.cpp`, `PexSections.cpp` | header, strings, debug information, user flags, objects | none: constructors and members |
| Loader | `PexHelper.cpp:17-503` | the reader, the local `parsed`, the call stack | `Load` and the thirteen `Read...` functions |
| Writer | `PexHelper.cpp:505-716` | the `std::ofstream` | `Save` and the thirteen `Write...` functions |
| Instance | `PexHelper.cpp`, `PexReader.cpp:83-162` | one `PexData` | `C_CreateInstance`, `C_ReadPex`, `C_ModifyStringTable`, `C_SavePex`, `C_Close`, `C_DestroyInstance` |
| Text | `PexStringTable.cpp`, `PexReader.cpp:28-52` | the loops' index and result | `StringTable::ToUtf8`: UTF-8 detection, conversion from CP1252; `UTF8ToWString` |
| Accessors | `PexReader.cpp:164-623` | none | some thirty functions that return a member or a count |
| C ABI | `PexReader.cpp:639-1011`, `PexReaderApi.h` | thread-local status, error text and header buffers | `InvokeAbi` around every function, exception mapping, `C_GetLastStatus` |
| Line-number buffers | `LineNumberBuffer.h`, `PexReader.cpp:284-309` | arrays the caller owns | `C_GetDebugFunctionInfo`, `C_FreeBuffer` |

The C functions call one `PexData` through a handle. `Load` builds a reader on
a stream, parses into a local object and moves that object into the instance.
`Save` truncates the target and streams the instance into it. An accessor reads
the instance, and the text of a string is made anew at each call. Inside the
library there are no threads, callbacks or messages; its callers may have
several threads, which share nothing but the heap and the handles they pass
around. What is hard here is

- arithmetic on numbers that come from the file (counts, lengths, the size of
  an object, a signed argument count), against limits that must not wrap;
- a grammar written twice by hand, once as Read and once as Write functions;
- counts kept beside vectors, and types beside variants, which the accessors
  trust, each with its own copy of the same chain of tests;
- the guess whether a string is UTF-8 or Windows-1252, made byte by byte;
- what a call leaves behind: a status per thread, a pointer into a buffer of
  the library, an array that becomes the caller's;
- failure half way through: a read that fails, an exception, a full disk, a
  process that dies while `Save` has truncated the file.

What makes each component correct: the reader stays within its bounds and has
been charged for everything that exists; the loader refuses what does not fit,
always returns, and changes the instance only at the end; counts are the sizes
of their vectors; the writer writes what the loader read; a file `Save`
completed loads again with the same data and a torn one does not load; the
accessors show all that was loaded and nothing else; well-formed UTF-8 is given
back as it was stored, and anything converted is well-formed; the status of a
thread is that of its own last call; what a caller was lent stands as long as
promised, and what it was given is its own.

## The modules

| Module | Models | Correspondence |
|---|---|---|
| `PexRecords` | records and the instruction set | A record tree is flat: a path such as `<<<<"objects", 2>>, <<"states", 1>>>>` and a member name give a number (`val`) or the size of a vector or string (`len`). |
| `PexLoad` | `PexBinaryReader` and `PexData::Load` | `size`, `position`, `aggregateElements` are the reader's members; `agenda` is what the call stack still has to do; `parsed` is the local object, `inst` the instance. An action is one read with the check and the assignment that follow it. |
| `PexWrite` | the Write functions | Pure: `Writes(d)` is the sequence of writes of `Save`, each with its width and value. `LengthError` stands where `CheckedUInt16Length` throws. |
| `PexCodec` | `PexLoad` and `PexWrite` composed | What a Load read is compared with what Save would write. |
| `PexData` | the life of one instance | Adds to `PexLoad` a Save that makes its writes one by one, `ModifyStringTable`, `Close`, failing streams and crashes. |
| `PexStore` | what an instance promises its caller | Abstract: contents, file and running call, without parser, writer or stream. `PexData` implements it (`ImplementsStore`). |
| `PexFixture` | `CreateFixture` of `PexReader.Tests/PexParserTests.cpp` | The tests' complete file, built with the operators of `PexWrite`. |
| `PexAccess` | the accessors | Pure, over the records of `PexRecords`: each accessor is its chain of (bound, vector) and the members it returns. `ShownMembers` and `ShownSizes` are what a caller sees who asks each count and every index below it. `PexCodec` compares them with what a Load left in the instance. |
| `PexText` | `StringTable::ToUtf8` and `UTF8ToWString` | One call: `i`, `actualSize` and `result` are the locals of `RawString::Parse`, `IsLikelyUTF8` and `Windows1252ToUTF8`; one turn of each loop is an action. `WellFormed` is the Unicode standard's definition of UTF-8, for reference and for `MultiByteToWideChar`. |
| `PexAbi` | the wrappers of the C ABI, for several threads and instances | A call is two steps: `Call` is the entry of `InvokeAbi`, which clears the status; the function, wrapper and implementation together, is the other, and other threads run between them. `status` is `LastAbiError`, `headerBuffer` the `static thread_local` buffers, `shown` the pointers a thread holds, `buffer` what was written into the caller's. |
| `PexLines` | `C_GetDebugFunctionInfo` and `C_FreeBuffer` | `heap` holds the caller's arrays and the storage of the instance's own vectors; `given` is what the caller was given, `outputs` its output variables. |
| `MCPexLoad`, `MCPexData`, `MCPexFixture`, `MCPexText`, `MCPexAbi`, `MCPexLines` | the instances TLC checks | Definitions of the constants only. |
| `PexLoadProofs`, `PexTextProofs`, `PexAbiProofs`, `PexLinesProofs` | theorems about the modules of those names | Checked by TLAPS. |
| `PexVectorProofs` | theorems about the counts and vectors of `PexLoad` | Extends `PexLoadProofs`. |
| `PexCodecProofs` | theorems about `PexLoad` and `PexWrite` together | Extends `PexVectorProofs`. |
| `PexDataProofs` | theorems about the life of an instance, and about what the C ABI shows of it | Extends `PexCodecProofs`. |
| `PexInduction` | lemmas about data: induction over numbers and finite sets, totals of sequences, sums over sets | No part of the program; the other proofs cite it. |

`PexAbi` and `PexLines` do not extend `PexData`. For a call of the ABI it
matters only whether `Load` and `Save` succeed, which `PexData` decides, and
what texts the instance then holds, which `PexText` reads; an instance is
therefore cut down to its texts, a file to what it may hold. `PexLines` keeps
of an instance the lists of line numbers. The handles a caller passes are ones
it holds, and no two threads are in one handle at a time (`MayUse`): the code
has no lock, and a call on a destroyed handle has no meaning.

The Read functions are tables: `ReadHeader`, for example, is the sequence of
reads that function makes, each with the member it fills. The actions of
`PexLoad` are the kinds of step such a table has: a scalar (`ReadScalar`), a
length-prefixed string (`ReadLength`), a count with its `ValidateCount` and
`resize` (`ReadCount`), the loop over it (`NextElement`), and one action for
each place where the code branches on what it read (`ReadDebugFlag`,
`ReadObjectSize`, `ObjectEnds`, `ReadPropertyFlags`, `ReadType`, `ReadOpcode`,
`ReadCallArguments`, `PushArgument`). An exception is `ReadFails`,
`ValueRefused`, `ObjectSizeMismatch` or `CallRefused`; `Commit` is the move
assignment at the end of `Load`.

A file is revealed as it is read. `disk` has a length and the bytes known so
far; a read at a new offset returns any value of `Contents` for that member,
and a later read at that offset finds the same. One run therefore covers every
file over the chosen values, and a file that `Save` wrote is read back as it
was written. A string's content is one value with the string's length as its
width; of two bytes, `disk` knows whether they are a number or a string
(`Number`, `Text`), and a number of two bytes is at most `MaxStringLength`
(`NumbersAssumption`). Definitions commented "Variant" are plausible slips in the definition
that follows them; no specification uses them. They show that the property
checked of that definition could fail.

The refinement mapping of `ImplementsStore`: the contents are `inst` without its
zero members; the file is unknown until Save writes it, unreadable while it is
torn (or was saved without the magic), and holds the saved data when complete;
the running call is read off `load` and `save`. The steps of the parser and of the
writer are stutters of the store, the last step of a call is the store's.

What is abstracted: in `PexAbi`, which of the exceptions a function can meet
occurs is a free choice where it depends on memory, and follows the code where
it depends on the arguments; texts are model values with a length in bytes and
one in `wchar_t`, negative for a text that is not UTF-8. Further: the byte order of a number (reader and writer use the same
four functions; a value and its width stand for its bytes), the text of
exceptions, the header arguments of a call living in C++ locals until they are
pushed (their values are in `parsed`, the vector's size stays 0), and
`reader.Failed()`, which nothing calls.

## The runs

| Run | Instance | Shows |
|---|---|---|
| `LoadSections` | the sections before the objects, four file lengths, two Loads, failing reads | `TypeOK`, `ReaderBounded`, `HeldWithinBudget`, `CountsMatchVectors`, `CountRefusalsAreSound`, `LoadIsAtomic`, `LoadReturns`, `SaveWritesWhatLoadRead`, `AbiShowsWhatIsHeld` |
| `LoadFunctions` | an object with a state, a function, up to two instructions | `HeldWithinBudget`, `ObjectSizesAreRight`, `SaveWritesWhatLoadRead`, `AbiShowsWhatIsHeld` |
| `LoadProperties` | up to two objects with variables of every type and properties with every flag | `ObjectSizesAreRight`, `SaveWritesWhatLoadRead`, `AbiShowsWhatIsHeld` |
| `DataLifetime` | one instance, a string table and a user flag, three Loads, two Saves, crashes | `DataTypeOK`, `CountsMatchVectors`, `SavedFileLoads`, `ReloadReproduces`, `SaveIsNeverCutShort` |
| `DataFaults` | the same with failing opens, reads and writes, two Loads | `TornFileNeverLoads`, `ImplementsStore`, `SaveReturns` |
| `FixturePrefixes` | the tests' file at each of its lengths | `FixtureLoads`, `PrefixesAreRejected`, `SaveWritesWhatLoadRead`, `AbiShowsWhatIsHeld` |
| `TextReadings` | all pairs of bytes, up to three of 23 boundary bytes, and near-characters of four and five bytes | `TextTypeOK`, `WellFormedIsKept`, `ConvertedIsWellFormed`, `ReadingIsDecidedByTheWhole` |
| `AbiCalls` | two threads, two handles, every kind of call | `AbiTypeOK`, `StatusTellsOutcome`, `BufferHoldsWholeText`, `BorrowedTextStands` |
| `Lines` | one instance, five addresses, files with up to two functions | `LinesTypeOK`, `EveryArrayHasOneOwner`, `NumbersAreKept`, `OutputsCanBeUsed` |
| `AbiStatus` | as `AbiCalls` | violates `StatusDescribesEveryCall` |
| `DataSaveSucceeds` | as `DataFaults` | violates `SuccessMeansSaved` |
| `FixtureAsWritten` | the tests' file as `CreateFixture` builds it | violates `FixtureLoads` |

Bounds. `MaxLoads` and `MaxSaves` bound how often the two calls are made: two
Loads let a second one fail on an instance the first one filled, and three Loads
with two Saves let a saved file be loaded, changed, saved and loaded again. The
limits are small so that small files reach them: `MaxFileSize` lies between the
chosen lengths, `MaxAggregateElements` between the numbers of elements the
files can have, `MaxInt32 = 7` makes the count 15 negative, and
`MaxStringLength`, 255 where a file's numbers go beyond 100, lies between the
lengths of the replacement strings of `DataLifetime`. The
lengths of the files are chosen at and one byte beside the end of a complete
file, so that each of "ends early", "ends exactly" and "has bytes to spare"
occurs. Members that steer the parser take the values on both sides of each of
its tests; every other member has a value of its own, so that exchanging any two
is noticed. `FixturePrefixes` uses a limit large enough for the whole fixture;
there a Load may be the last step, and deadlock is not checked.

The boundary bytes of `TextReadings` lie on both sides of every comparison in
`IsLikelyUTF8` and of every bound of the standard's table, with those of the
CP1252 table that need the fewest and the most bits; a call ends, so deadlock
is not checked. In `AbiCalls` the texts have lengths below, at and above the
capacities used, in both units, one is not UTF-8 and one is longer than
`MaxStringLength`; two threads suffice to see one disturb the other, and two
handles to see a handle reused after it was destroyed. The five addresses of
`Lines` hold the old and the new vectors of a Load beside an array of the
caller's, and run out otherwise, so that allocations fail and addresses are
reused.

Fairness. `Spec` assumes weak fairness of `LoadStep`, `DataSpec` of
`ContinueLoad` and `SaveStep`: the thread that is inside `Load` or `Save` keeps
running. Both are plain sequential functions without waiting, so nothing but
the end of the process (`Crash`) can stop them. No caller is assumed to call
anything.

## What the runs found

1. The tests' complete fixture does not load. `ReadObjects`
   (`PexHelper.cpp:165-184`) takes the size of an object to include its own four
   bytes; `CreateFixture` writes the length of the data alone
   (`PexParserTests.cpp:270-271`), and `LoadsCompleteFixture` expects the file
   to load. With the size that includes itself everything those tests assert
   holds (`FixturePrefixes`). A test that damages this
   fixture and expects a refusal passes even without the check it is about.
2. `Save` does not notice a failed write. The stream is never asked for its
   state, so `C_SavePex` returns 1 ("1 on success") for a truncated file
   (`DataSaveSucceeds`). `SuccessMeansSaved` is about the step in which Save
   returns normally and the file it leaves then; were the closing step of Save
   to fail when the stream is bad, the run would find no violation.
3. An accessor that returns 0 for an index out of range leaves the status `OK`
   (`AbiStatus`), while `PexReaderApi.h:86-87` says the status describes the most
   recent call. The functions with a text buffer and `C_ModifyStringTable` do set
   `OUT_OF_RANGE`. `StatusTellsOutcome` says what the status tells of each
   function: of the accessors that take an index, only whether the handle was
   null.

Three details that contradict no document: the wrapper of `C_GetDebugFunctionInfo`
refuses a null handle before the implementation resets the outputs, so a caller
that frees its pointer without looking at the return value must have set it;
an entry that begins with a NUL is returned with all its bytes, unread, so that
`C_GetStringWide` may refuse what it would otherwise convert
(`PexStringTable.cpp:166`); and `C_ReadPex` reports every exception, one for
lack of memory too, as `PARSE_ERROR`.

Two consequences of the design that contradict no document: `Save` truncates its
target first, so a crash during a Save to the file that was loaded loses it; and
replaced strings may make the saved file larger than `MaxFileSize`, which no
later `Load` opens.

## The proofs

`PexLoadProofs` proves, for all values of the constants that satisfy
`LimitsAssumption`, `EnvironmentAssumption` and `ContentsAssumption` (the limits
are natural numbers, a read returns a natural number):

- `TypeCorrect`: `Spec => []TypeOK`. `TypeOK` is inductive as it stands. Its
  heart is that the agenda is always a sequence of `Goals`: only reads that the
  code makes, of members they belong to, at paths the records have. Lemmas on
  the tables (`LoadTyped` to `VectorTyped`) say so of what can be put on the
  agenda, `ReadsTyped` of what it becomes; there is one lemma per action.
- `ReaderStaysBounded`: `Spec => []ReaderBounded`. The strengthening is
  `TypeOK /\ ReaderBounded`: a charge fits because `ValidateCount` compared the
  difference and because the count is not negative, which for the argument
  count of a call is `CountTyped`.
- `LoadReplacesTheWholeOrNothing`: `Spec => LoadIsAtomic`.

`PexVectorProofs` proves, from the same assumptions, what Load makes of the
counts of a file. Its inductive invariant is `VectorInv`, which TLC checked on
the instances of the three `Load` runs before it was proved. Beside `TypeOK`
and `ReaderBounded` it says

- `ObjectsComeLast`: the loop over the objects is the last goal of the agenda,
  no goal before it has a count of the objects, and a count of functions stands
  where it belongs (`HasCount`: that of the debug information in `PexData`,
  that of a state elsewhere; both size a vector named `functions`).
- `ObjectsCounted`: the vector of objects, which Load reserves and then appends
  to, has as many elements as the loop has begun, less one whose size is not
  yet read.
- `Matched`: every other count equals the size of its vector at all times.
- `ChargedFor`: `Held(parsed) + Owing(agenda) + ObjectsToCome <=
  aggregateElements`. The arguments of a call are charged when their number is
  known and pushed one by one, so what the agenda will still push belongs to the
  sum, as do the objects to come.

From it follow `CountsAlwaysMatchVectors` and `HeldStaysWithinBudget`.
`CountRefusalsAreAlwaysSound` needs in addition that the twelve minimum sizes,
counted by hand in the code, are at most the sums of the widths of the shortest
elements (`MinimumSizesAreRight`), and that a quotient of natural numbers is
rounded down. Eleven of them are those sums. That of an object counts its name
and size, 6 bytes, while the shortest takes 22: an object count may be accepted
for which there is no room, and the Load fails at a later read.

`PexCodecProofs` proves that the two grammars, written by hand as Read and as
Write functions, are one. Its invariant `CodecInv` adds to `VectorInv`

- `Emit`, which gives for each goal of the agenda the writes that Save will make
  for it of given data, so that `EmitAll(agenda, d)` is what is still to be
  written;
- `FreshInv`: no two goals of the agenda set the same member, and none sets one
  that is set already (the argument of a type shares its members with the type,
  and what a loop will set lies under paths no other goal has);
- `Explained`: for all data `d` that agree with `parsed` in all that is settled
  (`Fit`), the history read so far followed by `EmitAll(agenda, d)` is
  `Writes(d)`. At the end `parsed` itself is such data and the agenda is empty,
  which is `SaveAlwaysWritesWhatLoadRead`;
- `Narrow`: what was read from two bytes is at most `MaxStringLength`
  (`NumbersAssumption`), so that `CheckedUInt16Length` refuses none of it.

A step of Load replaces the goal at the head by what its function reads next,
and one lemma per kind of goal shows that the writes of the old goal are the
value just read followed by the writes of the new ones.
`ObjectSizesAreAlwaysRight` follows from the same module's `Announces` (the goal
that reads the size of an object stands for the object after those in the
vector) and `Sizes` (each object has the right size or is being read), since the
bytes of an object are those of its writes.

`PexDataProofs` proves what holds whatever calls follow one another on an
instance, with Saves that fail or die anywhere. The invariant `DataInv` is
`CodecInv`, and that the instance and the data last written are `Sound`: every
count is the size of its vector, the vectors are within the limit, and all
two-byte members and all strings are at most `MaxStringLength` (`Short`). Data
that are sound make only writes the stream takes (`Writable`), so that
`LengthError` is never among the writes of a Save; hence `NothingCutsSaveShort`,
`DataTypeCorrect` and `CountsMatchWhateverIsCalled`, which is
`CountsMatchVectors` for `DataSpec`. That a two-byte member is at most
`MaxStringLength` needs `StringLengthAssumption`, that the limit is at least the
largest `uint8_t`: the type of a variable and the type of an operand are one
byte and two, under one member name.

The same module then goes the other way, from what was written to what is read:
`NoTornFileLoads` is `DataSpec => TornFileNeverLoads`. Its inductive invariant
is `FiledInv` (`FileIsAsWritten`), which adds to `DataInv`

- `ShapesInv`: an instruction has as many operands as its opcode says, and the
  operands after the count are those the count announces. Load makes only such
  instructions; without it the writes of an instruction could not be cut where
  its reads are;
- `Filed`: the file holds the writes of the data last saved, as far as Save
  came. `Stands(w, n, at)` says that every item of `w` that ends within the
  first `n` bytes stands in the file at its offset. `StandsGrows` says that each
  write keeps this, and `TornWrite` and `WholeWrite` that it holds of what a
  full disk or a death leaves behind;
- `Retraced`: while a Load reads a file that Save made of data `d`, `d` agrees
  with all that is parsed so far, and `Writes(d)` is the `position` bytes of
  writes that are done followed by `EmitAll(agenda, d)`. The value the next
  read finds is the first write that the agenda owes of `d` (`EmitFirst`,
  `ReadFinds`), so the goals it puts on the agenda are those that `d` puts there
  (`ReadStepFits`).

At the end the agenda is empty, so Load has read every item of `Writes(d)`, and
a file that lacks one of their bytes has ended before.

So what was parsed agrees with `d`; that nothing of `d` is missing from it is
`SavedDataComeBack`, which is `DataSpec => ReloadReproduces`. Which goals a Load
comes to depends on a few of the values only: counts, flags, types, opcodes.
`Leads(g, d)` gives the goals that take the place of `g` when the data are `d`,
a set of goals is `Closed` for `d` when it has those of `Load` and with each
goal those it leads to, and `StoreInv` (`DataAreGrounded`) adds to `FiledInv`

- `Walked`: for all data `d` that agree with what is parsed, the goals that are
  done and those on the agenda are closed for `d` and part of every closed set,
  and the members that are set are those the done goals set (`Fills`,
  `Measures`). It says nothing of the file;
- `Grounded`, of the instance and of the data last saved: every member that is
  not 0 belongs to a goal in each closed set. A Load ends with such data because
  of `Walked`. A replaced string keeps them so: its length is read by a goal
  every closed set has (`StringsRead`, an induction over the strings), and
  unless it is empty the bytes are read after the length;
- `MagicRead`: a magic that is parsed is the right one.

A Load of a file of `d` that succeeds has visited a closed set, so it has set
every member of `d` that is not 0, and to what it is in `d` (`SameNormal`).

`StoreIsImplemented` is `DataSpec => ImplementsStore`: each step is one of
`PexStore` or leaves all of its variables alone. The opening of a file is
`BeginLoad`, a throw and a refused file are `LoadFails`, the commit is
`LoadSucceeds` (by `CommitMagic` and `CommitReloads`), the opening of the stream
`BeginSave` and its closing `EndSave`; the reads and the writes are no steps.

`AbiAlwaysShowsWhatIsHeld` is `Spec => AbiShowsWhatIsHeld`: what the accessors
of `PexAccess` show of an instance just loaded is what the parser put there, but
for members that are 0 and the handlers of properties (`Hidden`). Its invariant
`SurveyInv` adds to `CodecInv` and the shapes of the instructions `Surveyed`:
the goals that are done are `Walked`, and each type among them is at most 5.

- An accessor reaches a record by a chain of counts; `BoundIsSize` says that each
  of these is the size of the vector it bounds, so that `Reached` holds the
  records the parser made, and no others.
- `Homes` lists, for each chain, what the parser reads of a record it reaches. A
  goal is `Homed` for data `d` when it reads one of these, and of a variable's
  data the alternative its type asks for, or when it belongs to a handler. By
  `LeadsHomed` such goals lead to such goals only. So the goals at home are
  closed, and the goals of the Load, which are in every closed set, are all at
  home (`ParsedIsHoused`).
- `ReadingsShown` and `LinksShown` find an accessor for each of these reads, and
  `ShownIsHeld` and `HeldIsShown` compare the two sets.

`PexTextProofs` proves, for every set of entries (`StringsAssumption`: they are
sequences of bytes):

- `TextTypeCorrect`: `TextSpec => []TextTypeOK`. A character that looks like one
  ends at `actualSize` at the latest, so `i` never passes the end.
- `WellFormedKept`: `TextSpec => []WellFormedIsKept`. The strengthening says that
  in a well-formed entry without a NUL the loop of `IsLikelyUTF8` is always at
  the start of a character or past the last; the standard's ranges of lead bytes
  lie in the masks of the code, and the lengths agree, so the next turn moves to
  the next start.
- `ConversionIsWellFormed`: `TextSpec => []ConvertedIsWellFormed`. While
  converting, `result` is a sequence of whole characters: each `Encoded(b)` is
  one, and a sequence of characters stays one when a character is appended.
- `TheWholeDecides`: `TextSpec => []ReadingIsDecidedByTheWhole`. The
  strengthening, `DecidedInv`, says that the groups of bytes before the index
  are complete and that in an entry of the loose form a group starts at the
  index. So an entry that is converted has not the loose form, and an entry with
  a byte above 127 becomes longer when it is converted: what was given back
  unchanged was not converted.

`PexAbiProofs` proves, from `AbiAssumption` (null is no handle, lengths are
numbers, the three header functions have different names), the four
properties of `AbiCalls`. The inductive invariant `AbiInv` adds to them that no
two calls are in one instance, that a call which has not returned has status
`OK` and has written nothing, and that what a thread shows is in the thread's
own buffer. One lemma says what the entry of a call changes, four what a call
that returns changes of each variable, and that everything it changes is its
own thread's; `OthersSettled` carries the rest.

`PexLinesProofs` proves, from `LinesAssumption`, the four properties of `Lines`.
Together with "an array the instance keeps is not empty" they are inductive: a
Load allocates before it frees, an address is new to both owners, and what the
caller frees is its own.

Induction over data. The induction theorems of the library have an operator as
a parameter, which the provers here cannot instantiate. `PexInduction` states
induction with a set instead (a set of numbers that has 0 and with n also n + 1
has all), from the library's theorem that the strict subset ordering on finite
sets is well founded, and proves with it what `Total` and `MapThenSumSet` do
when an element is added or changed. A recursive function is the CHOOSE of a
solution of its equation. The SMT translation takes such a definition for an
axiom even where it has no solution, so each proof here shows that a solution
exists, lets Zenon make the step to the CHOOSE, and hides the definition.

## Not modelled, and the plan

Model-checked only, so far:

- `SavedFileLoads`: what is missing is that a Load of sound data refuses nothing
  (that the counts of sound data fit what remains of the file at each moment, and
  that no value is refused for itself);
- `FixtureLoads` and `PrefixesAreRejected`, which are about one file;
- `LoadReturns` and `SaveReturns`, which are liveness.

Left out:

- the project files, the version resource and the build and test scripts, which
  hold no behaviour of the library;
- two threads in one handle, which the library does not support: every member
  would be raced for;
- the text of errors (`C_GetLastErrorUtf8`), which accompanies the status from
  the same place, and the version string;
- the other types of `RawString::Parse` and `RawString::Dump`, which nothing
  calls;
- the handlers of a property and the instruction count of a debug function, which
  no accessor returns (`Hidden` in `PexCodec`).
