-------------------------------- MODULE Script --------------------------------
(***************************************************************************)
(* The vocabulary in which the packages' protocols are written down.  A    *)
(* protocol of the library is a set of handlers: the round functions and   *)
(* message callbacks of a package, each of which runs at most once per     *)
(* party, waits for the messages of its collector, checks some of what     *)
(* came in and sends what comes next.  One definition of a package module  *)
(* describes one such function; module RoundScript gives it its meaning.   *)
(***************************************************************************)

\* A handler with nothing in it.  The fields of a handler:
\*   role      the committee whose members run it: "all", "old", "new", ...
\*   after     the handlers that connected its collector, or that it joins
\*   inline    it is called by the last of those, before that one returns
\*   on        its collectors: pairs <<message type, group of senders>>
\*   solo      it also runs when no sender is expected
\*   ctx       it starts with the test of ctx.Err()
\*   screens   types whose content it checks only in part
\*   verifies  types of which no content that is wrong passes
\*   uses      types whose content enters the result unchecked
\*   binds     pairs <<e, t>>: a message of type e is refused when its sender
\*             and the receiver were given different messages of type t
\*   compares  such pairs where only a part of t enters the comparison, so that
\*             the message may be refused or not
\*   needs     handlers a party of both committees must already have run
\*   gate      the result is tested: nothing computed from wrong content passes
\*   chance    it fails when the rejection sampling of the run has no luck
\*   sends     what it hands to the broker, see below
\*   eager     types it sends to one peer before it has checked the next
\*   does      "share": the party holds a new share that it has verified; "key":
\*             its new key is complete; "erase": it has erased the old one;
\*             "scrub": so it has, even if ctx is done; "done": it sends the
\*             result; "leave": so it does if it is not a new member
Handler ==
  [role |-> "all", after |-> {}, inline |-> FALSE, on |-> {}, solo |-> FALSE, ctx |-> FALSE,
   screens |-> {}, verifies |-> {}, uses |-> {}, binds |-> {}, compares |-> {}, needs |-> {},
   gate |-> FALSE, chance |-> FALSE, sends |-> {}, eager |-> {}, does |-> {}]

\* What a handler sends: type t to the parties of group r.  The kind says what
\* a faulty sender can do with the content.
P2P(t, r)   == [t |-> t, to |-> r, kind |-> "p2p"]    \* wrong to some, right to others
Bcast(t, r) == [t |-> t, to |-> r, kind |-> "bcast"]  \* one content for everybody
Fork(t, r)  == [t |-> t, to |-> r, kind |-> "fork"]   \* also two contents, both right
Echo(t, r)  == [t |-> t, to |-> r, kind |-> "echo"]   \* a copy of what was received
Ack(t, r)   == [t |-> t, to |-> r, kind |-> "ack"]    \* no content at all

\* What the faulty sender can put into a message of a kind.
Contents(kind) ==
  CASE kind = "ack"  -> {"ok"}
    [] kind = "fork" -> {"ok", "alt", "bad"}
    [] OTHER         -> {"ok", "bad"}

\* A protocol with no handlers.  The other fields of a protocol:
\*   raw       Done and Err are written without a once-guard
\*   reveals   triples <<c, g, r>>: r is sent only with c in hand from all of g
\*   sealed    types that must not carry what was computed from wrong content
\*   agreed    types of which nobody may give two parties different contents
\*   unproven  types whose content nothing in the protocol can prove right
\*   deferred  the result is tested by a later call, not by the protocol
Protocol ==
  [handlers |-> [x \in {} |-> Handler], raw |-> FALSE, reveals |-> {}, sealed |-> {},
   agreed |-> {}, unproven |-> {}, deferred |-> FALSE]

Names(sc) == DOMAIN sc.handlers

\* The handlers of S, with all the handlers they come after.
Closed(sc, S) == \A h \in S : sc.handlers[h].after \subseteq S

Sends(H) == {s.t : s \in H.sends}
Hears(H) == {c[1] : c \in H.on}

\* The types whose content the result depends on.
Matters(sc) ==
  {s.t : s \in {a \in UNION {sc.handlers[h].sends : h \in Names(sc)} : a.kind # "ack"}}
    \ sc.unproven

\* The types whose content some handler checks or computes with.
Checked(sc) == UNION {sc.handlers[h].verifies \cup sc.handlers[h].uses : h \in Names(sc)}
===============================================================================
