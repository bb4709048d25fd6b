----------------------------- MODULE MCStartup -----------------------------
(***************************************************************************)
(* A minute of 27 seconds with SendBlock at every fourth of them, so that   *)
(* its ticks move against the periods: with periods of 5 and 4 seconds five *)
(* blocks come to wait.                                                    *)
(***************************************************************************)
EXTENDS Startup, TLC

Defaults == ("interval" :> 12) @@ ("max_txs" :> 4) @@ ("send_interval" :> 5)

Both == [name \in Names |-> TRUE]

(* Whole files with values of the intervals a server keeps up with and     *)
(* others, blank ones among them; files without an interval, a section, a  *)
(* scheduler, or with a wrong address.                                     *)
Whole(object, items) ==
    [exists |-> TRUE, sections |-> Sections, address |-> TRUE, enable |-> TRUE,
     node |-> object, items |-> items]

ConfigFiles ==
    {Whole(("interval" :> i) @@ ("send_interval" :> s) @@ ("max_txs" :> 2), Both) :
        i \in {Blank, 5, 7}, s \in {Blank, 4, 5}}
    \cup {Whole("interval" :> 4, Both)}
    \cup {Whole("max_txs" :> m, Both) : m \in {Blank, NaN, 4}}
    \cup {Whole("interval" :> 4, items) :
              items \in {"node" :> TRUE, "send_block" :> TRUE, "node" :> FALSE}}
    \cup {[Whole("interval" :> 4, Both) EXCEPT !.sections = Sections \ {section}] :
              section \in Sections}
    \cup {[Whole("interval" :> 4, Both) EXCEPT !.exists = FALSE],
          [Whole("interval" :> 4, Both) EXCEPT !.address = FALSE],
          [Whole("interval" :> 4, Both) EXCEPT !.enable = FALSE]}
============================================================================
