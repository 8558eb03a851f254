---------------------------- MODULE BootVariables ----------------------------
(***************************************************************************)
(* The boot variables over many boots: MsBootOptionsLib registers the two  *)
(* default options at every boot (SDD and USB), DeviceBootManagerLib locks *)
(* BootOrder, BootNext and Boot#### just before the first ReadyToBoot if   *)
(* the DFCI setting asks for it, and looks after MsBootNext when a booted  *)
(* option returns.  The variable store and the option library of the       *)
(* packages around this one are modelled from how they are called here:    *)
(* adding an option writes BootOrder and then Boot####, so that a reset    *)
(* may come between the two, and listing the options drops the numbers of  *)
(* BootOrder that have no variable.                                        *)
(***************************************************************************)
EXTENDS Naturals, FiniteSets, SequencesExt

CONSTANT MaxNumber    \* bound: the option numbers are 0..MaxNumber

ASSUME BoundsAssumption == MaxNumber \in Nat

Numbers  == 0..MaxNumber
Defaults == <<"SDD", "USB">>            \* RegisterDefaultBootOptions, in its order
Kinds    == {"SDD", "USB", "OS"}
None     == [kind |-> "none", active |-> FALSE]
Option   == [kind : Kinds, active : BOOLEAN]

\* The names of the variables that may be locked.
BootOrder  == <<"BootOrder", 0>>
BootNext   == <<"BootNext", 0>>
BootNum(n) == <<"Boot", n>>
Lockable   == {BootOrder, BootNext} \cup {BootNum(n) : n \in Numbers}

\* The default option that a phase of the registration is about.
Number(phase) == IF phase \in {"register1", "write1"} THEN 1 ELSE 2

VARIABLES
    option,      \* non-volatile: Boot####, or None
    order,       \* non-volatile: BootOrder
    bootNext,    \* non-volatile: does BootNext exist?
    lockSetting, \* non-volatile: the DFCI setting BOOT_ORDER_LOCK
    frontPage,   \* non-volatile: OsIndications asks for the front page
    locks,       \* the variables a policy of this boot locks
    msBootNext,  \* this boot: does MsBootNext exist (and say TRUE)?
    hooked,      \* is mPreReadyToBootEvent still open?
    adding,      \* an option number in BootOrder whose variable is being written
    lockWanted,  \* history: lockSetting as it was at the first ReadyToBoot
    pc,
    faulty       \* may a write of a variable or of a policy fail in this machine?

nv   == <<option, order, bootNext, lockSetting, frontPage, faulty>>
boot == <<locks, msBootNext, hooked, adding, lockWanted, pc>>
vars == <<nv, boot>>

PowerOn == /\ locks = {} /\ msBootNext = FALSE /\ hooked = TRUE /\ adding = {}
           /\ lockWanted = FALSE /\ pc = "register1"

Init == /\ option = [n \in Numbers |-> None] /\ order = <<>>
        /\ bootNext = FALSE /\ lockSetting \in BOOLEAN /\ frontPage = FALSE
        /\ faulty \in BOOLEAN
        /\ PowerOn

\* A BootOrder without the numbers that are gone.
Without(o, gone) ==
    LET kept[i \in 0..Len(o)] ==
          IF i = 0 THEN <<>>
          ELSE IF o[i] \in gone THEN kept[i - 1] ELSE Append(kept[i - 1], o[i])
    IN  kept[Len(o)]

Absent == {n \in Numbers : option[n] = None}

\* EfiBootManagerGetLoadOptions: the numbers of BootOrder that have a variable.
Listed == Without(order, Absent)

\* The smallest number that an order does not use.
Free(o) == CHOOSE n \in Numbers \ ToSet(o) : \A m \in Numbers \ ToSet(o) : n <= m

\* Mutant of FindLoadOption: looks for the option as registered only, not with
\* the ACTIVE attribute turned over.
FindActiveOnly(kind) == {n \in ToSet(order) : option[n] = [kind |-> kind, active |-> TRUE]}

\* EfiBootManagerFindLoadOption, called twice: with LOAD_OPTION_ACTIVE as the
\* default option has it, then with that bit turned over.
FindLoadOption(kind) == {n \in ToSet(order) : option[n].kind = kind}

\* Mutant of After: registration ends with the first option.
AfterFirst(i) == "ready"

After(i) == IF i = 1 THEN "register2" ELSE "ready"

RegisterFvBootOption ==
    /\ pc \in {"register1", "register2"}
    /\ LET i == Number(pc) IN
          IF FindLoadOption(Defaults[i]) # {}
          THEN pc' = After(i) /\ order' = Listed /\ UNCHANGED adding
          ELSE /\ ToSet(Listed) # Numbers              \* bound
               /\ order' = Append(Listed, Free(Listed))        \* Position is -1: at the end
               /\ adding' = {Free(Listed)}
               /\ pc' = IF i = 1 THEN "write1" ELSE "write2"
    /\ UNCHANGED <<option, bootNext, lockSetting, frontPage, faulty, locks, msBootNext, hooked, lockWanted>>

\* The second half of EfiBootManagerAddLoadOptionVariable; a failed write takes
\* the number out of BootOrder again.
WriteLoadOption ==
    /\ pc \in {"write1", "write2"}
    /\ LET i == Number(pc) IN
       \E n \in adding :
          /\ \/ /\ option' = [option EXCEPT ![n] = [kind |-> Defaults[i], active |-> TRUE]]
                /\ UNCHANGED order
             \/ /\ faulty
                /\ order' = Without(order, {n})
                /\ UNCHANGED option
          /\ pc' = After(i)
    /\ adding' = {}
    /\ UNCHANGED <<bootNext, lockSetting, frontPage, faulty, locks, msBootNext, hooked, lockWanted>>

------------------------------------------------------------------------------
DeleteBootNext == <<"DeleteBootNext", 0>>
LockTargets == {BootOrder, BootNext} \cup {BootNum(n) : n \in ToSet(order)}

\* Mutants of LockBootVariables: BootNext is locked and not deleted; the loop
\* over BootOrder misses its first entry.
LockBootVariablesKeepNext ==
    /\ locks' = IF lockSetting THEN locks \cup LockTargets ELSE locks
    /\ UNCHANGED bootNext

LockBootVariablesShort ==
    /\ locks' = IF lockSetting THEN locks \cup (LockTargets \ {BootNum(order[i]) : i \in {1} \cap DOMAIN order})
                               ELSE locks
    /\ bootNext' = (bootNext /\ ~lockSetting)

\* BdsBootLockBootVariables: nothing is locked if the setting or the policy
\* protocol cannot be had; after that every policy that cannot be registered, and a
\* BootNext that cannot be deleted, is logged and passed over.
LockBootVariables ==
    IF lockSetting
    THEN \/ faulty /\ UNCHANGED <<locks, bootNext>>
         \/ \E failed \in SUBSET (LockTargets \cup {DeleteBootNext}) :
              /\ failed = {} \/ (faulty /\ Cardinality(failed) = 1)   \* bound: one fault
              /\ locks' = locks \cup (LockTargets \ failed)
              /\ bootNext' = (bootNext /\ DeleteBootNext \in failed)
    ELSE UNCHANGED <<locks, bootNext>>

\* ReadyToBoot is signalled before every attempt; PreReadyToBoot closes its own
\* event, so that only the first signal of a boot finds it.
ReadyToBoot ==
    /\ pc \in {"ready", "returned"}
    /\ IF hooked THEN LockBootVariables /\ lockWanted' = lockSetting
                 ELSE UNCHANGED <<locks, bootNext, lockWanted>>
    /\ hooked' = FALSE
    /\ pc' = "running"
    /\ UNCHANGED <<option, order, lockSetting, frontPage, faulty, msBootNext, adding>>

\* BDS takes BootNext off before it boots what it names.
TakeBootNext ==
    /\ pc = "ready" /\ hooked /\ bootNext
    /\ bootNext' = FALSE
    /\ UNCHANGED <<option, order, lockSetting, frontPage, faulty, boot>>

\* The boot menu notes that the user chose the option by hand.
BootMenuSetsMsBootNext ==
    /\ pc = "running" /\ ~msBootNext
    /\ msBootNext' = TRUE
    /\ UNCHANGED <<nv, locks, hooked, adding, lockWanted, pc>>

ResetLocals == /\ locks' = {} /\ msBootNext' = FALSE /\ hooked' = TRUE /\ adding' = {}
               /\ lockWanted' = FALSE /\ pc' = "register1"

\* DeviceBootManagerProcessBootCompletion for an option that came back, which
\* takes MsBootNext off: if the option was chosen by hand RebootToFrontPage
\* resets the machine, otherwise the next option is tried.
ProcessBootCompletion ==
    /\ pc = "running"
    /\ \/ /\ msBootNext
          /\ frontPage' = TRUE \/ (faulty /\ UNCHANGED frontPage)
          /\ ResetLocals
       \/ /\ ~msBootNext
          /\ pc' = "returned"
          /\ UNCHANGED <<frontPage, locks, msBootNext, hooked, adding, lockWanted>>
    /\ UNCHANGED <<option, order, bootNext, lockSetting, faulty>>

\* A power cut or a reset, anywhere.
Reset == ResetLocals /\ UNCHANGED nv

------------------------------------------------------------------------------
(* What an operating system or the settings application does to the        *)
(* variables while it runs.                                                *)
Writable(v) == v \notin locks

SetActive ==
    \E n \in Numbers :
       /\ option[n] # None /\ Writable(BootNum(n))
       /\ option' = [option EXCEPT ![n].active = ~@]
       /\ UNCHANGED <<order, bootNext, lockSetting>>

AddOption ==
    /\ Writable(BootOrder) /\ ToSet(order) # Numbers
    /\ \A n \in Numbers : option[n].kind # "OS"            \* bound: one more option
    /\ Writable(BootNum(Free(order)))
    /\ order' = <<Free(order)>> \o order
    /\ option' = [option EXCEPT ![Free(order)] = [kind |-> "OS", active |-> TRUE]]
    /\ UNCHANGED <<bootNext, lockSetting>>

DeleteOption ==
    \E n \in ToSet(order) :
       /\ Writable(BootOrder) /\ Writable(BootNum(n))
       /\ order' = Without(order, {n})
       /\ option' = [option EXCEPT ![n] = None]
       /\ UNCHANGED <<bootNext, lockSetting>>

Reorder ==
    /\ Writable(BootOrder)
    /\ Len(order) > 1
    /\ order' = Tail(order) \o <<Head(order)>>
    /\ UNCHANGED <<option, bootNext, lockSetting>>

SetBootNext ==
    /\ Writable(BootNext) /\ ~bootNext
    /\ bootNext' = TRUE
    /\ UNCHANGED <<option, order, lockSetting>>

ChangeLockSetting ==
    /\ lockSetting' = ~lockSetting
    /\ UNCHANGED <<option, order, bootNext>>

UserAction ==
    /\ pc = "running"
    /\ SetActive \/ AddOption \/ DeleteOption \/ Reorder \/ SetBootNext \/ ChangeLockSetting
    /\ UNCHANGED <<frontPage, faulty, boot>>

\* The front page takes the request off when it comes up.
FrontPageShown ==
    /\ pc = "ready" /\ frontPage
    /\ frontPage' = FALSE
    /\ UNCHANGED <<option, order, bootNext, lockSetting, faulty, boot>>

Next == \/ RegisterFvBootOption \/ WriteLoadOption \/ ReadyToBoot \/ TakeBootNext
        \/ BootMenuSetsMsBootNext \/ ProcessBootCompletion \/ Reset
        \/ UserAction \/ FrontPageShown

Spec == Init /\ [][Next]_vars

------------------------------------------------------------------------------
\* However often the machine boots, is reset in the middle of registering, and
\* has its options reordered or deactivated in between, BootOrder never lists
\* one of the default options twice.
NoDuplicateDefaults ==
    \A kind \in ToSet(Defaults) :
       Cardinality({i \in DOMAIN order : option[order[i]].kind = kind}) <= 1

\* Registration repairs what was deleted, also after a reset in the middle of it:
\* when it ends on a machine whose writes do not fail, both default options are
\* in BootOrder.
DefaultsRestored ==
    ~faulty /\ pc = "ready" => \A kind \in ToSet(Defaults) : \E n \in ToSet(order) : option[n].kind = kind

\* If the lock was asked for when ReadyToBoot was first signalled, then whatever
\* runs from then on, and after any number of options that came back, finds
\* BootOrder, BootNext and every option of BootOrder locked, unless registering
\* a policy failed, which is logged only.
LockIsComplete == ~faulty /\ lockWanted => LockTargets \subseteq locks

\* "Delete BootNext as a locked BootNext is a bad thing": a BootNext that is
\* locked does not exist, unless deleting it failed, which is logged only.
LockedBootNextIsAbsent == ~faulty /\ BootNext \in locks => ~bootNext
==============================================================================
