--------------------------- MODULE TegraKeyboard ---------------------------
(***************************************************************************)
(* TegraKeyboardDxe after a successful Start: the keystroke queues, the    *)
(* registered notification functions and the two TPL_CALLBACK handlers     *)
(* between the keyboard device and the users of SimpleTextIn(Ex).          *)
(*                                                                         *)
(* One processor runs the code at three task priority levels.  Every       *)
(* protocol function raises to TPL_NOTIFY for the whole of its body, so it *)
(* is one action.  KeyboardTimerHandler and KeyNotifyProcessHandler run at *)
(* TPL_CALLBACK: they interrupt the application between two calls, never   *)
(* each other.  The notification functions run inside                      *)
(* KeyNotifyProcessHandler and may call the driver again.                  *)
(*                                                                         *)
(* KeyboardErr is FALSE throughout: only KeyboardError sets it, and        *)
(* nothing calls KeyboardError.  A queue is the sequence that KeyQueue is  *)
(* proved to implement.  A poll of the device brings at most one           *)
(* keystroke; a longer batch is as many polls.                             *)
(***************************************************************************)
EXTENDS Integers, Sequences, FiniteSets

CONSTANTS Handle,          \* addresses of KEYBOARD_CONSOLE_IN_EX_NOTIFY records
          NotifyFn,        \* the notification functions that get registered
          DeviceKey,       \* EFI_KEY_DATA the device reports
          RegisterKey,     \* EFI_KEY_DATA given to RegisterKeyNotify
          ToggleRequest,   \* EFI_KEY_TOGGLE_STATE given to SetState
          Capacity,        \* KEYBOARD_EFI_KEY_MAX_COUNT - 1 keystrokes
          MaxPress,        \* bound on the keystrokes of a behaviour
          NoKey, NoLink    \* no keystroke; the head of NotifyList

ASSUME CapacityAssumption == Capacity \in Nat \ {0}
ASSUME MaxPressAssumption == MaxPress \in Nat
ASSUME LinkAssumption == NoLink \notin Handle

VARIABLES
  keyQueue,        \* EfiKeyQueue, for the readers
  notifyQueue,     \* EfiKeyQueueForNotify, for the notification functions
  notifyList,      \* NotifyList: a sequence of [handle, key, fn]
  toggles,         \* ScrollLock, NumLock, CapsLock, IsSupportPartialKey
  notifyEvent,     \* KeyNotifyProcessEvent is signalled and not yet handled
  handler,         \* KeyNotifyProcessHandler: [pc, press, link]
  reading,         \* the application is in the loop of KeyboardReadKeyStroke
  presses,         \* history: how many keystrokes the driver accepted
  duty,            \* history: which registration must get which keystroke
  promised         \* history: WaitForKey was signalled, nothing was taken since

vars == <<keyQueue, notifyQueue, notifyList, toggles, notifyEvent, handler,
          reading, presses, duty, promised>>

(* A queue entry: a keystroke and the history of which press it was. *)
Press == [id : 1 .. MaxPress, data : DeviceKey]
Registration == [handle : Handle, key : RegisterKey, fn : NotifyFn]
Toggle == {"scroll", "num", "caps", "exposed"}
Duty == {"none", "owed", "served"}

TypeOK ==
  /\ keyQueue \in Seq(Press) /\ Len(keyQueue) <= Capacity
  /\ notifyQueue \in Seq(Press) /\ Len(notifyQueue) <= Capacity
  /\ notifyList \in Seq(Registration)
  /\ toggles \subseteq Toggle
  /\ notifyEvent \in BOOLEAN
  /\ handler \in [pc : {"idle", "pop", "walk", "call"},
                  press : Press \cup {NoKey}, link : Handle \cup {NoLink}]
  /\ reading \in BOOLEAN
  /\ presses \in 0 .. MaxPress
  /\ duty \in [Handle \X (1 .. MaxPress) -> Duty]
  /\ promised \in BOOLEAN

-----------------------------------------------------------------------------
(* Keystrokes, registrations and the notification list.                    *)

(* ScanCode is SCAN_NULL and UnicodeChar is CHAR_NULL. *)
IsPartial(data) == data.code = 0

(* A shift or toggle state of 0 in the registration matches any state. *)
IsKeyRegistered(registered, input) ==
  /\ registered.code = input.code
  /\ registered.shift \in {0, input.shift}
  /\ registered.toggle \in {0, input.toggle}

Registrations == {notifyList[i] : i \in DOMAIN notifyList}
Registered == {r.handle : r \in Registrations}
Matching(data) == {r \in Registrations : IsKeyRegistered(r.key, data)}
IndexOf(h) == CHOOSE i \in DOMAIN notifyList : notifyList[i].handle = h

FirstLink == IF notifyList = <<>> THEN NoLink ELSE notifyList[1].handle

NextLink(h) ==
  IF IndexOf(h) = Len(notifyList) THEN NoLink
                                  ELSE notifyList[IndexOf(h) + 1].handle

(* Mutant of PushEfikeyBufTail: a full queue drops nothing. *)
PushEfikeyBufTailKeepAll(q, press, n) == q \o [i \in 1 .. n |-> press]

(* Pushing n copies of a keystroke, each push dropping the oldest entry of *)
(* a full queue.                                                           *)
PushEfikeyBufTail(q, press, n) ==
  LET all == q \o [i \in 1 .. n |-> press]
  IN  SubSeq(all, IF Len(all) > Capacity THEN Len(all) - Capacity + 1 ELSE 1,
             Len(all))

(* The presses that the notification functions can still be given. *)
Pending(q) ==
  {q[i].id : i \in DOMAIN q}
    \cup (IF handler.pc \in {"walk", "call"} THEN {handler.press.id} ELSE {})

(* A duty is forfeited when the press was dropped by an overflow or reset. *)
Forfeit(d, q) ==
  [x \in DOMAIN d |->
     IF d[x] = "owed" /\ x[2] \notin Pending(q) THEN "none" ELSE d[x]]

-----------------------------------------------------------------------------
(* KeyboardTimerHandler, by its event and from inside the readers: poll    *)
(* the device and push what it reports to both queues.                     *)

Accepted(key) ==
  key # NoKey /\ (IsPartial(key) => "exposed" \in toggles)

NewPress(key) == [id |-> presses + 1, data |-> key]

KeysAfterPoll(key) ==
  IF Accepted(key) THEN PushEfikeyBufTail(keyQueue, NewPress(key), 1)
                   ELSE keyQueue

(* Mutant of PushToNotify: a keystroke is queued but the event is signalled *)
(* only for a registration without shift state.                             *)
PushToNotifyUnsignalled(key) ==
  LET matching == Matching(key)
  IN  /\ notifyQueue' = PushEfikeyBufTail(notifyQueue, NewPress(key),
                                          Cardinality(matching))
      /\ notifyEvent' = (notifyEvent \/ \E r \in matching : r.key.shift = 0)

(* One push and one signal for every registration that matches. *)
PushToNotify(key) ==
  LET matching == Matching(key)
  IN  /\ notifyQueue' = PushEfikeyBufTail(notifyQueue, NewPress(key),
                                          Cardinality(matching))
      /\ notifyEvent' = (notifyEvent \/ matching # {})

(* KeyboardReturnApiPushEfikeyBufTail for what GetKeys reports; the caller  *)
(* continues with KeysAfterPoll.                                            *)
PollDevice(key) ==
  IF Accepted(key)
  THEN /\ presses < MaxPress
       /\ presses' = presses + 1
       /\ PushToNotify(key)
       /\ duty' = Forfeit([x \in DOMAIN duty |->
                             IF /\ x[2] = presses + 1
                                /\ \E r \in Matching(key) : r.handle = x[1]
                             THEN "owed" ELSE duty[x]], notifyQueue')
  ELSE UNCHANGED <<presses, notifyQueue, notifyEvent, duty>>

PolledKey == DeviceKey \cup {NoKey}

(* Did the push of this poll drop a keystroke of a full queue? *)
Overflows(key) == Accepted(key) /\ Len(keyQueue) = Capacity

KeyboardTimerHandler ==
  /\ handler.pc = "idle"
  /\ \E key \in DeviceKey :
       /\ Accepted(key)
       /\ PollDevice(key)
       /\ keyQueue' = KeysAfterPoll(key)
       /\ promised' = (promised /\ ~Overflows(key))
  /\ UNCHANGED <<notifyList, toggles, handler, reading>>

-----------------------------------------------------------------------------
(* The protocol functions.  The application calls them between two         *)
(* handlers, a notification function from within KeyNotifyProcessHandler.  *)

CanCall == handler.pc = "call" \/ (handler.pc = "idle" /\ ~reading)

(* KeyboardReadKeyStrokeWorker: poll, then pop. *)
ReadKeyStrokeWorker(key) ==
  /\ PollDevice(key)
  /\ keyQueue' = IF KeysAfterPoll(key) = <<>> THEN <<>>
                                              ELSE Tail(KeysAfterPoll(key))
  /\ promised' = FALSE

KeyboardReadKeyStrokeEx ==
  /\ CanCall
  /\ \E key \in PolledKey : ReadKeyStrokeWorker(key)
  /\ UNCHANGED <<notifyList, toggles, handler, reading>>

(* The application enters the loop of KeyboardReadKeyStroke.  A            *)
(* notification function that calls it is several KeyboardReadKeyStrokeEx: *)
(* nothing at TPL_CALLBACK can run between the iterations.                 *)
KeyboardReadKeyStroke ==
  /\ handler.pc = "idle" /\ ~reading
  /\ reading' = TRUE
  /\ UNCHANGED <<keyQueue, notifyQueue, notifyList, toggles, notifyEvent,
                 handler, presses, duty, promised>>

(* One iteration: leave with a keystroke or with EFI_NOT_READY, skip a     *)
(* partial one.  The handlers may run between two iterations.              *)
ReadKeyStrokeIteration ==
  /\ handler.pc = "idle" /\ reading
  /\ \E key \in PolledKey :
       /\ ReadKeyStrokeWorker(key)
       /\ reading' = (/\ KeysAfterPoll(key) # <<>>
                      /\ IsPartial(Head(KeysAfterPoll(key)).data))
  /\ UNCHANGED <<notifyList, toggles, handler>>

(* Mutant of SkipPartial: the head of the queue is taken as it is. *)
SkipPartialNever(q) == q

(* KeyboardWaitForKey pops partial keystrokes until a real one is at the   *)
(* head.                                                                   *)
SkipPartial(q) ==
  LET real == {i \in DOMAIN q : ~IsPartial(q[i].data)}
  IN  IF real = {} THEN <<>>
      ELSE SubSeq(q, CHOOSE i \in real : \A j \in real : i <= j, Len(q))

(* CheckEvent or WaitForEvent on WaitForKey or WaitForKeyEx. *)
KeyboardWaitForKey ==
  /\ CanCall
  /\ \E key \in PolledKey :
       /\ PollDevice(key)
       /\ keyQueue' = SkipPartial(KeysAfterPoll(key))
       /\ promised' = (keyQueue' # <<>>)
  /\ UNCHANGED <<notifyList, toggles, handler, reading>>

(* KeyboardEfiReset, KeyboardEfiResetEx and InitKeyboard. *)
KeyboardEfiReset ==
  /\ CanCall
  /\ keyQueue' = <<>>
  /\ notifyQueue' = <<>>
  /\ toggles' = {}
  /\ duty' = Forfeit(duty, <<>>)
  /\ promised' = FALSE
  /\ UNCHANGED <<notifyList, notifyEvent, handler, reading, presses>>

(* The locks are tested by an else-if chain: only the first one is set. *)
SetToggles(request) ==
  CASE "scroll" \in request  -> {"scroll"}
    [] "num" \in request /\ "scroll" \notin request -> {"num"}
    [] "caps" \in request /\ request \cap {"scroll", "num"} = {} -> {"caps"}
    [] OTHER -> request \cap {"exposed"}

(* A request without EFI_TOGGLE_STATE_VALID is EFI_UNSUPPORTED. *)
KeyboardSetState ==
  /\ CanCall
  /\ \E request \in ToggleRequest :
       /\ "valid" \in request
       /\ toggles' = SetToggles(request)
  /\ UNCHANGED <<keyQueue, notifyQueue, notifyList, notifyEvent, handler,
                 reading, presses, duty, promised>>

(* The registration with the same function that already matches the key    *)
(* answers the call; a new one goes to the end of the list, at an address  *)
(* that is not in use.                                                     *)
KeyboardRegisterKeyNotify ==
  /\ CanCall
  /\ \E key \in RegisterKey, fn \in NotifyFn, h \in Handle \ Registered :
       /\ ~ \E r \in Matching(key) : r.fn = fn
       /\ notifyList' = Append(notifyList, [handle |-> h, key |-> key, fn |-> fn])
  /\ UNCHANGED <<keyQueue, notifyQueue, toggles, notifyEvent, handler,
                 reading, presses, duty, promised>>

(* The list without its i-th entry. *)
RemoveEntryList(i) ==
  [j \in 1 .. Len(notifyList) - 1 |->
     IF j < i THEN notifyList[j] ELSE notifyList[j + 1]]

(* A notification function may unregister any registration but the one it  *)
(* is called for: the handler would go on from the freed record.           *)
MayUnregister(h) == handler.pc = "call" => h # handler.link

KeyboardUnregisterKeyNotify ==
  /\ CanCall
  /\ \E i \in DOMAIN notifyList :
       LET h == notifyList[i].handle
       IN  /\ MayUnregister(h)
           /\ notifyList' = RemoveEntryList(i)
           /\ duty' = [x \in DOMAIN duty |->
                         IF x[1] = h THEN "none" ELSE duty[x]]
  /\ UNCHANGED <<keyQueue, notifyQueue, toggles, notifyEvent, handler,
                 reading, presses, promised>>

-----------------------------------------------------------------------------
(* KeyNotifyProcessHandler.                                                *)

(* The dispatcher of the DXE core clears the signal, then calls it. *)
DispatchKeyNotify ==
  /\ handler.pc = "idle" /\ notifyEvent
  /\ notifyEvent' = FALSE
  /\ handler' = [handler EXCEPT !.pc = "pop"]
  /\ UNCHANGED <<keyQueue, notifyQueue, notifyList, toggles, reading, presses,
                 duty, promised>>

(* Mutant of HandlerPop: one keystroke for each signal. *)
HandlerPopOnce ==
  /\ handler.pc = "pop"
  /\ IF notifyQueue = <<>> \/ handler.press # NoKey
     THEN /\ handler' = [pc |-> "idle", press |-> NoKey, link |-> NoLink]
          /\ UNCHANGED notifyQueue
     ELSE /\ handler' = [pc |-> "walk", press |-> Head(notifyQueue),
                         link |-> FirstLink]
          /\ notifyQueue' = Tail(notifyQueue)
  /\ UNCHANGED <<keyQueue, notifyList, toggles, notifyEvent, reading, presses,
                 duty, promised>>

HandlerPop ==
  /\ handler.pc = "pop"
  /\ IF notifyQueue = <<>>
     THEN /\ handler' = [pc |-> "idle", press |-> NoKey, link |-> NoLink]
          /\ UNCHANGED notifyQueue
     ELSE /\ handler' = [pc |-> "walk", press |-> Head(notifyQueue),
                         link |-> FirstLink]
          /\ notifyQueue' = Tail(notifyQueue)
  /\ UNCHANGED <<keyQueue, notifyList, toggles, notifyEvent, reading, presses,
                 duty, promised>>

(* Look at one registration: call its function or go to the next. *)
HandlerWalk ==
  /\ handler.pc = "walk"
  /\ IF handler.link = NoLink
     THEN /\ handler' = [handler EXCEPT !.pc = "pop"]
          /\ UNCHANGED duty
     ELSE LET r == notifyList[IndexOf(handler.link)]
          IN  IF IsKeyRegistered(r.key, handler.press.data)
              THEN /\ handler' = [handler EXCEPT !.pc = "call"]
                   /\ duty' = [duty EXCEPT ![<<r.handle, handler.press.id>>] =
                                             "served"]
              ELSE /\ handler' = [handler EXCEPT !.link = NextLink(r.handle)]
                   /\ UNCHANGED duty
  /\ UNCHANGED <<keyQueue, notifyQueue, notifyList, toggles, notifyEvent,
                 reading, presses, promised>>

(* Mutant of HandlerReturn: the walk ends with the first function called. *)
HandlerReturnBreak ==
  /\ handler.pc = "call"
  /\ handler' = [handler EXCEPT !.pc = "pop"]
  /\ UNCHANGED <<keyQueue, notifyQueue, notifyList, toggles, notifyEvent,
                 reading, presses, duty, promised>>

(* The function returns; the next link is read only now. *)
HandlerReturn ==
  /\ handler.pc = "call"
  /\ handler' = [handler EXCEPT !.pc = "walk", !.link = NextLink(handler.link)]
  /\ UNCHANGED <<keyQueue, notifyQueue, notifyList, toggles, notifyEvent,
                 reading, presses, duty, promised>>

-----------------------------------------------------------------------------

Init ==
  /\ keyQueue = <<>> /\ notifyQueue = <<>> /\ notifyList = <<>>
  /\ toggles = {}
  /\ notifyEvent = FALSE /\ reading = FALSE /\ promised = FALSE
  /\ handler = [pc |-> "idle", press |-> NoKey, link |-> NoLink]
  /\ presses = 0
  /\ duty = [x \in Handle \X (1 .. MaxPress) |-> "none"]

Next ==
  \/ KeyboardTimerHandler
  \/ KeyboardReadKeyStrokeEx
  \/ KeyboardReadKeyStroke
  \/ ReadKeyStrokeIteration
  \/ KeyboardWaitForKey
  \/ KeyboardEfiReset
  \/ KeyboardSetState
  \/ KeyboardRegisterKeyNotify
  \/ KeyboardUnregisterKeyNotify
  \/ DispatchKeyNotify
  \/ HandlerPop
  \/ HandlerWalk
  \/ HandlerReturn

Spec == Init /\ [][Next]_vars

(* The core dispatches a signalled event as soon as the TPL drops, the     *)
(* handler runs to its end, and a notification function returns.           *)
FairSpec ==
  /\ Spec
  /\ WF_vars(DispatchKeyNotify)
  /\ WF_vars(HandlerPop)
  /\ WF_vars(HandlerWalk)
  /\ WF_vars(HandlerReturn)

-----------------------------------------------------------------------------

(***************************************************************************)
(* A keystroke that waits for the notification functions has a handler     *)
(* coming: KeyNotifyProcessEvent is signalled, or the handler is running   *)
(* and will pop again before it returns (KeyNotifyProcessHandler's loop    *)
(* against the pushes of the notification functions' own reads).           *)
(***************************************************************************)
NoLostWakeup == notifyQueue # <<>> => notifyEvent \/ handler.pc # "idle"

(***************************************************************************)
(* When the handler has gone through the queue, every registration that    *)
(* matched a keystroke when it was typed has had its function called,      *)
(* whatever the functions registered, unregistered or read meanwhile,      *)
(* unless it was itself unregistered or an overflow or a reset dropped the *)
(* keystroke: the walk over a list that changes under it skips no one.     *)
(***************************************************************************)
NothingOwedWhenDone ==
  handler.pc = "idle" /\ notifyQueue = <<>> =>
    \A x \in DOMAIN duty : duty[x] # "owed"

(***************************************************************************)
(* After WaitForKey reported a keystroke, and as long as nobody read or    *)
(* reset and no overflow dropped a keystroke, a real keystroke (not a      *)
(* partial one) is there for ReadKeyStroke, whatever was typed, polled or  *)
(* toggled in between.                                                     *)
(***************************************************************************)
WaitForKeyTruthful ==
  promised => \E i \in DOMAIN keyQueue : ~IsPartial(keyQueue[i].data)

(***************************************************************************)
(* Every keystroke owed to a registration is eventually delivered, or      *)
(* forfeited by an overflow, a reset or the unregistering.                 *)
(***************************************************************************)
NotifyDelivered ==
  \A x \in Handle \X (1 .. MaxPress) : duty[x] = "owed" ~> duty[x] # "owed"
=============================================================================
