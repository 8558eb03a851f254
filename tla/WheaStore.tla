------------------------------ MODULE WheaStore ------------------------------
(***************************************************************************)
(* MsWheaEarlyStorageLib: hardware errors met before the variable services *)
(* work are kept in a small memory that survives a reset.  The memory is a *)
(* header, with the length of the used part (ActiveRange) and a checksum   *)
(* over header and used part, followed by the records.  MsWheaESAddRecordV0 *)
(* writes the record behind the used part and then the header, a byte at a *)
(* time: the power may be cut between any two bytes.                       *)
(*                                                                         *)
(* The used part is counted in records here, and a checksum is what it was *)
(* computed from: sums that agree by chance are left out.  The report      *)
(* driver that reads, empties and initialises the store is not part of the *)
(* repository; it is modelled from the header it must leave.               *)
(***************************************************************************)
EXTENDS Integers, Sequences

CONSTANTS Record,       \* the error records
          Capacity,     \* PcdMsWheaReportEarlyStorageCapacity
          HeaderSize,   \* sizeof (MS_WHEA_EARLY_STORAGE_HEADER)
          EntrySize     \* sizeof (MS_WHEA_EARLY_STORAGE_ENTRY_V0)

UINT8(n) == n % 256

StorageOffset == 64                                  \* MS_WHEA_EARLY_STORAGE_OFFSET
MaxSize       == UINT8(Capacity - StorageOffset)     \* MsWheaEarlyStorageGetMaxSize
MaxDataCount  == UINT8(MaxSize - HeaderSize)         \* MsWheaESGetMaxDataCount

\* The memory is addressed with 8 bits, and has room for a record; a record and
\* a header are whole words.
SizeAssumption ==
    /\ HeaderSize \in Nat \ {0} /\ EntrySize \in Nat \ {0}
    /\ HeaderSize % 2 = 0 /\ EntrySize % 2 = 0
    /\ Capacity \in Nat /\ Capacity < 256
    /\ StorageOffset + HeaderSize + EntrySize <= Capacity

ASSUME SizeAssumption

Blank == "blank"    \* the default value, or what a cut power supply left of a record
ASSUME BlankAssumption == Blank \notin Record

VARIABLES
    active,    \* ActiveRange in the memory, in records; -1 is the default value
    sum,       \* the checksum in the memory
    slot,      \* the records in the memory
    pc,        \* where MsWheaESAddRecordV0 is
    rec,       \* the record it adds
    header,    \* Header.ActiveRange of its copy of the header
    toWrite,   \* the parts of the header not written yet
    status     \* what it returned last

memory == <<active, sum, slot>>
locals == <<pc, rec, header, toWrite, status>>
vars   == <<memory, locals>>

Slots  == {i \in 1..MaxDataCount : i * EntrySize <= MaxDataCount}
Used(n) == [i \in 1..n |-> slot[i]]

\* A checksum that covers ActiveRange and the used part of the data.
SumOf(n)  == [range |-> n, data |-> Used(n)]
NoSum     == [range |-> -1, data |-> <<>>]

\* The test of the reader: the checksum is right.
Valid == active >= 0 /\ sum = SumOf(active)

Cold == pc = "idle" /\ rec = Blank /\ header = 0 /\ toWrite = {} /\ status = "none"

\* The memory was never initialised, or holds an empty log.
Init == /\ slot = [i \in Slots |-> Blank]
        /\ \/ active = -1 /\ sum = NoSum
           \/ active = 0 /\ sum = SumOf(0)
        /\ Cold

------------------------------------------------------------------------------
(* __MsWheaCMOSRawRead, -Write and -Clear and their callers refuse what    *)
(* does not lie in the memory.  All of it is arithmetic of 8 bits.         *)
RawAccepts(size, offset) == size # 0 /\ UINT8(Capacity - size) >= offset
Accepts(size, offset) ==
    offset < MaxSize /\ RawAccepts(size, UINT8(StorageOffset + offset))

\* The offset of a record.
DataOffset(n) == UINT8(HeaderSize + n * EntrySize)

\* Mutant of Fits: the test forgets the size of the record.
FitsWithoutEntry(n) == n >= 0 /\ n * EntrySize <= MaxDataCount

\* MsWheaESFindSlot.  The default value of ActiveRange is beyond every store.
Fits(n) == n >= 0 /\ (n + 1) * EntrySize <= MaxDataCount

AddRecord ==
    /\ pc = "idle"
    /\ rec' \in Record
    /\ IF Fits(active) THEN header' = active /\ pc' = "entry" /\ status' = "none"
                       ELSE status' = "outOfResources" /\ UNCHANGED <<header, pc>>
    /\ UNCHANGED <<memory, toWrite>>

\* The first byte of the record spoils the slot.
WriteEntry ==
    /\ pc = "entry"
    /\ IF Accepts(EntrySize, DataOffset(header))
       THEN slot' = [slot EXCEPT ![header + 1] = Blank] /\ pc' = "entryBytes" /\ UNCHANGED status
       ELSE status' = "invalid" /\ pc' = "idle" /\ UNCHANGED slot
    /\ UNCHANGED <<active, sum, rec, header, toWrite>>

EntryWritten ==
    /\ pc = "entryBytes"
    /\ slot' = [slot EXCEPT ![header + 1] = rec]
    /\ pc' = "sum"
    /\ UNCHANGED <<active, sum, rec, header, toWrite, status>>

\* MsWheaESCalculateChecksum16 takes an ActiveRange that is not odd.
SumFails(n) == n * EntrySize > MaxSize \/ (n * EntrySize) % 2 = 1

\* The header is read again, and its copy grows by the record.
PrepareHeader ==
    /\ pc = "sum"
    /\ header' = active + 1
    /\ IF SumFails(active + 1)
       THEN status' = "badBufferSize" /\ pc' = "idle" /\ UNCHANGED toWrite
       ELSE toWrite' = {"range", "sum"} /\ pc' = "header" /\ UNCHANGED status
    /\ UNCHANGED <<memory, rec>>

\* Mutant of HeaderByte: the checksum is that of the range before the record.
HeaderByteStale(part) ==
    \/ part = "range" /\ active' = header /\ UNCHANGED sum
    \/ part = "sum" /\ sum' \in {SumOf(header - 1), NoSum} /\ UNCHANGED active

\* One part of the header.  The two bytes of the checksum may be cut apart; those
\* of ActiveRange may not, since it is less than 256.
HeaderByte(part) ==
    \/ part = "range" /\ active' = header /\ UNCHANGED sum
    \/ part = "sum" /\ sum' \in {SumOf(header), NoSum} /\ UNCHANGED active

\* The header goes to the memory in the order of its fields, which its
\* declaration, outside the repository, gives.
WriteHeader ==
    /\ pc = "header"
    /\ \E part \in toWrite :
          /\ HeaderByte(part)
          /\ toWrite' = IF part = "sum" /\ sum' = NoSum THEN toWrite ELSE toWrite \ {part}
    /\ pc' = IF toWrite' = {} THEN "idle" ELSE "header"
    /\ status' = IF toWrite' = {} THEN "success" ELSE status
    /\ UNCHANGED <<slot, rec, header>>

AddRecordStep == WriteEntry \/ EntryWritten \/ PrepareHeader \/ WriteHeader

\* A power cut or a reset: the memory keeps what it has.
PowerCut == /\ pc' = "idle" /\ rec' = Blank /\ header' = 0 /\ toWrite' = {} /\ status' = "none"
            /\ UNCHANGED memory

\* The report driver has taken the records and leaves an empty log.
ReportAndInitialise ==
    /\ pc = "idle"
    /\ slot' = [i \in Slots |-> Blank]
    /\ active' = 0 /\ sum' = [range |-> 0, data |-> <<>>]
    /\ status' = "none" /\ UNCHANGED <<pc, rec, header, toWrite>>

Next == AddRecord \/ AddRecordStep \/ ReportAndInitialise \/ PowerCut

Spec == Init /\ [][Next]_vars

------------------------------------------------------------------------------
StoreTypeOK ==
    /\ active \in {-1, 0} \cup Slots
    /\ slot \in [Slots -> Record \cup {Blank}]
    /\ pc \in {"idle", "entry", "entryBytes", "sum", "header"}
    /\ rec \in Record \cup {Blank}
    /\ header \in Int
    /\ toWrite \subseteq {"range", "sum"}
    /\ status \in {"none", "success", "outOfResources", "invalid", "badBufferSize"}

(* What holds between the calls of MsWheaESAddRecordV0Internal.            *)
Underway ==
    /\ pc # "idle" => rec \in Record /\ status = "none"
    /\ pc \in {"entry", "entryBytes", "sum"} => active >= 0 /\ active + 1 \in Slots
    /\ pc \in {"entry", "entryBytes"} => header = active
    /\ pc = "sum" => slot[active + 1] = rec

HeaderUnderway ==
    pc = "header" =>
        /\ header \in Slots /\ slot[header] = rec
        /\ IF "range" \in toWrite THEN active = header - 1 ELSE active = header
        /\ "sum" \notin toWrite => sum = SumOf(header)

Told == status = "success"

SuccessIsReadable == Told => Valid

StoreInv == StoreTypeOK /\ Underway /\ HeaderUnderway /\ SuccessIsReadable

Log == INSTANCE RecordLog WITH log <- Used(active), readable <- Valid, told <- Told

\* The store implements the log: in whatever order the bytes of the header are
\* written and wherever the power is cut, no record that was added is changed,
\* dropped or doubled, and a caller that was told of success left a store that
\* passes the reader's test.
ImplementsRecordLog == Log!Spec
==============================================================================
