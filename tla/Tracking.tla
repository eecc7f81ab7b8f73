------------------------------ MODULE Tracking ------------------------------
(***************************************************************************)
(* Tracking a shipment: TrackingService, the choice of its adapter, and    *)
(* the snapshot that the shipment adapter makes of each answer of the      *)
(* carrier.  The carrier answers with the list of its events and, at its   *)
(* will, with the current one beside the list.  It only appends to the     *)
(* list; the service keeps nothing between two polls.                      *)
(*                                                                         *)
(* Codes are known by what the table of the provider makes of them, and    *)
(* times by their order; the receipt of a poll, labels and texts are left  *)
(* out, and an event id is what is hashed.                                 *)
(***************************************************************************)
EXTENDS Naturals, Sublists, SequencesExt, FiniteSetsExt

CONSTANTS
    Rows,      \* the events a carrier may write, see Row
    StatusOf,  \* what the status map makes of a code, "none" of an unknown one
    MaxRows    \* bound on the list of events

\* id 0 is none; sequence 0 is none or zero, which the code takes for none; time
\* 0 is none, or one that is not written as it should be; code "none" is none.
Row == [code : DOMAIN StatusOf \union {"none"}, id : Nat, sequence : Nat, time : Nat, place : Nat]

ASSUME TrackingAssumption == Rows \subseteq Row

VARIABLES
    adapter,  \* the adapter of the service: "unsupported", "stub" or "shipment"
    list,     \* the events the carrier lists
    current,  \* the set of the event beside the list, if there is one
    polled,   \* the list at the last poll that was answered
    shown,    \* the snapshot of that poll
    refusal   \* the error code of the last poll, "none" if it was answered

trackingVars == <<adapter, list, current, polled, shown, refusal>>

\* map_native_status
Status(code) == IF code \in DOMAIN StatusOf THEN StatusOf[code] ELSE "none"

\* build_event_id: the id of the carrier, its sequence, or the place in the list.
Discriminator(row, index) ==
    IF row.id # 0 THEN <<"id", row.id, 0>>
    ELSE IF row.sequence # 0 THEN <<"sequence", row.sequence, 0>>
    ELSE <<"index", index, row.time>>

EventId(row, index) == <<row.code, Discriminator(row, index)>>

\* map_event
Event(row, index) ==
    [id |-> EventId(row, index), status |-> Status(row.code), time |-> row.time, place |-> row.place]

\* Rows without a code are passed over, and so is an id that was seen.
First(rows, i) ==
    /\ rows[i].code # "none"
    /\ \A j \in 1 .. (i - 1) : rows[j].code # "none" => EventId(rows[j], j) # EventId(rows[i], i)

History(rows) ==
    LET kept == Keep([i \in DOMAIN rows |-> i], {i \in DOMAIN rows : First(rows, i)})
    IN  [n \in DOMAIN kept |-> Event(rows[kept[n]], kept[n])]

Mapped(history) == Keep(history, {e \in ToSet(history) : e.status # "none"})

BugChanged(mapped) == Min({i \in DOMAIN mapped : mapped[i].status = Last(mapped).status})

\* Where the last run of one status begins.
Changed(mapped) == Max({0} \union {i \in DOMAIN mapped : mapped[i].status # Last(mapped).status}) + 1

NoSnapshot == [history |-> <<>>, status |-> "none", changed |-> 0, updated |-> 0, place |-> 0]

\* assemble_tracking
Assembled(history) ==
    LET mapped == Mapped(history)
    IN  [history |-> history,
         status  |-> IF mapped = <<>> THEN "none" ELSE Last(mapped).status,
         changed |-> IF mapped = <<>> THEN 0 ELSE mapped[Changed(mapped)].time,
         updated |-> IF history = <<>> THEN 0 ELSE Last(history).time,
         place   |-> IF history = <<>> THEN 0 ELSE Last(history).place]

BugAnswer == SetToSeq(current) \o list

\* The list, and the current event after it.
Answer == list \o SetToSeq(current)
-----------------------------------------------------------------------------
TrackingInit ==
    /\ adapter = "none"
    /\ list = <<>>
    /\ current = {}
    /\ polled = <<>>
    /\ shown = NoSnapshot
    /\ refusal = "none"

\* get_tracking_adapter, for the wire that tracking_wire_id names: without a
\* wire or an address there is nothing to ask, other providers have a stub.
ChooseAdapter(provider, wire, address) ==
    /\ adapter = "none"
    /\ adapter' = IF wire = "none" \/ (provider = "deutschepost" /\ wire = "internetmarke") THEN "unsupported"
                  ELSE IF provider # "deutschepost" \/ wire # "shipment" THEN "stub"
                  ELSE IF address THEN "shipment" ELSE "unsupported"
    /\ UNCHANGED <<list, current, polled, shown, refusal>>

\* A row of its own, the current event if the carrier says so; a carrier that
\* numbers its events does not use a number twice.
Record(row, pointed) ==
    /\ adapter = "shipment"
    /\ Len(list) < MaxRows
    /\ \A i \in DOMAIN list : (row.time # 0 => list[i].time < row.time) /\ (row.id # 0 => list[i].id # row.id)
    /\ list' = Append(list, row)
    /\ current' = IF pointed THEN {row} ELSE {}
    /\ UNCHANGED <<adapter, polled, shown, refusal>>

\* The current event is told before it is listed.
Announce(row) ==
    /\ adapter = "shipment"
    /\ \A i \in DOMAIN list : (row.time # 0 => list[i].time < row.time) /\ (row.id # 0 => list[i].id # row.id)
    /\ current' = {row}
    /\ UNCHANGED <<adapter, list, polled, shown, refusal>>

Poll ==
    /\ adapter = "shipment"
    /\ shown' = Assembled(History(Answer))
    /\ polled' = list
    /\ refusal' = "none"
    /\ UNCHANGED <<adapter, list, current>>

\* A blank number, 404; another status from 400 on, or an answer that is no object.
PollFails(code) ==
    /\ adapter = "shipment"
    /\ refusal' = code
    /\ UNCHANGED <<adapter, list, current, polled, shown>>

PollUnsupported ==
    /\ adapter \in {"unsupported", "stub"}
    /\ refusal' \in {"PORTO_TRACKING_UNSUPPORTED", "PORTO_TRACKING_NOT_FOUND"}
    /\ UNCHANGED <<adapter, list, current, polled, shown>>

TrackingNext ==
    \/ \E provider \in {"deutschepost", "laposte"}, wire \in {"none", "internetmarke", "shipment"}, address \in BOOLEAN :
          ChooseAdapter(provider, wire, address)
    \/ \E row \in Rows : Announce(row) \/ \E pointed \in BOOLEAN : Record(row, pointed)
    \/ Poll
    \/ \E code \in {"PORTO_TRACKING_NOT_FOUND", "PORTO_NETWORK_UNAVAILABLE"} : PollFails(code)
    \/ PollUnsupported

TrackingSpec == TrackingInit /\ [][TrackingNext]_trackingVars
-----------------------------------------------------------------------------
(* Properties *)

\* What a poll has shown of the list a later poll shows again, first and in the
\* same order, under the same ids, whatever the ids are made from and whatever
\* stands beside the list (shipment.py:81-115, adapter.py:20-39).
EventsStay ==
    [][LET before == History(polled)
       IN  shown' # shown => SubSeq(shown'.history, 1, Len(before)) = before]_trackingVars

\* The rows that bring no other status than the one shown.
Quiet(rows) == \A i \in DOMAIN rows : Status(rows[i].code) \in {"none", shown.status}

News == SubSeq(list, Len(polled) + 1, Len(list))

\* For a carrier that numbers its events, a poll that brings nothing of another
\* status leaves the time of the last change where it was, and one that ends with
\* another status dates the change by an event no poll has shown
\* (adapter.py:149-165).
ChangeIsDated ==
    [][/\ shown' # shown
       /\ \A i \in DOMAIN list : list[i].id # 0
       /\ current \subseteq ToSet(list)
       /\ shown.history = History(polled)
       => /\ Quiet(News) /\ shown.status # "none" => shown'.changed = shown.changed
          /\ shown'.status # shown.status => \E i \in DOMAIN News : News[i].time = shown'.changed]_trackingVars
=============================================================================
