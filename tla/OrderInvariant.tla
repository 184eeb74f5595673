--------------------------- MODULE OrderInvariant ----------------------------
(***************************************************************************)
(* The inductive invariant of OrderAttempts: what each row, each exchange  *)
(* order and each pass knows of the others.  The safety properties of      *)
(* OrderAttempts follow from it.                                           *)
(***************************************************************************)
EXTENDS OrderAttempts

\* The exchange never sees an order before the request or the phone posts it,
\* a match ends it, and the index never runs ahead.
OrderOK == \A o \in Orders :
    /\ matched[o] > 0 => phase[o] = "done"
    /\ indexed[o] <= matched[o]
    /\ readable[o] => phase[o] \in {"live", "done"}
    /\ (\A a \in Attempts : hash[a] # o) => phase[o] = "unposted"

\* A signed order belongs to one row, a bound row to its own order.
BindingOK ==
    /\ \A a, b \in Attempts : hash[a] # None /\ hash[a] = hash[b] => a = b
    /\ \A a \in Attempts : ext[a] # None =>
          ext[a] = hash[a] /\ state[a] \in {"POSTED", "FILLED", "PARTIAL", "KILLED"}

\* Who may still post the order of a row, and in which states.
HolderOK == \A a \in Attempts :
    /\ state[a] \in {"NONE", "ISSUED"} => hash[a] = None
    /\ hash[a] = None => /\ state[a] \in {"NONE", "ISSUED", "FAILED"}
                         /\ request[a] = "none" /\ browser[a] = "idle"
    /\ request[a] # "none" => browser[a] = "idle"
    /\ browser[a] = "approved" => phase[hash[a]] = "unposted"
    /\ browser[a] \in {"sent", "knows"} => phase[hash[a]] # "unposted"
    /\ request[a] = "claimed" => state[a] = "SUBMITTING" /\ phase[hash[a]] = "unposted"
    /\ request[a] = "sent" => state[a] = "SUBMITTING" /\ phase[hash[a]] # "unposted"
    /\ request[a] = "booking" => /\ state[a] \in {"POSTED", "FILLED", "PARTIAL"}
                                 /\ matched[hash[a]] > 0
    /\ request[a] = "killing" => /\ state[a] = "POSTED" /\ ext[a] = None
                                 /\ phase[hash[a]] = "gone"

\* A marker and an age are only ever those of a row nobody is submitting.
MarkerOK == \A a \in Attempts :
    /\ note[a] = "reported" => /\ state[a] = "SUBMITTING" /\ request[a] = "none"
                               /\ phase[hash[a]] # "unposted"
                               /\ browser[a] \in {"idle", "knows"}
    /\ a \in aged => state[a] = "SUBMITTING" /\ FloorCovers(a)

\* The booked total, its label and the stamp.
BookedOK == \A a \in Attempts :
    /\ booked[a] <= Charged(a)
    /\ booked[a] > 0 <=> state[a] \in Booked
    /\ state[a] \in Booked => state[a] = Label(booked[a])
    /\ final[a] => state[a] \in Booked /\ booked[a] = Charged(a)

\* What a pass read stays true until it acts on it.
Knows(r) ==
    LET a == r.attempt
        n == r.total
    IN
    /\ r.at # "idle" => hash[a] # None
    /\ r.at \in {"adopt", "confirm"} =>
          request[a] = "none" /\ browser[a] \in {"idle", "knows"} /\ phase[hash[a]] # "unposted"
    /\ r.at \in {"orphan", "absent"} => FloorCovers(a)
    /\ r.at = "absent" => matched[hash[a]] = 0
    /\ r.at \in {"probe", "book", "fees"} => ext[a] # None
    /\ r.at \in {"book", "fees"} =>
          /\ n <= matched[hash[a]]
          /\ r.terminal \/ n = 0 => phase[hash[a]] = "done" /\ n = matched[hash[a]]
    /\ r.at = "fees" => 0 < n /\ n <= booked[a]

PassOK == \A p \in Workers : Knows(pass[p])

\* The counter never passes the cap, and counts exactly the slots in use.
CapOK == \A d \in Days : swipes[d] <= SwipeCap

Core == /\ TypeOK /\ OrderOK /\ BindingOK /\ HolderOK /\ MarkerOK
        /\ BookedOK /\ PassOK /\ NoMoneyLost /\ CapOK

IInv == Core /\ SlotAccounting
=============================================================================
