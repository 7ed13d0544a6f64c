--------------------------- MODULE MCEimCfgStore ---------------------------
(* Constants of EimCfgStore for model checking. *)
EXTENDS EimCfgStore

CONSTANTS e1, e2, e3, f1, f2

Entry(id, fqdn, counter, token) == [id |-> id, fqdn |-> fqdn, counter |-> counter, token |-> token]

\* Two eIMs that ask for a token; a file that fails at its second entry.
MCInitCfgs == {<<Entry(e1, f1, 1, Requested), Entry(e2, f1, 1, Requested)>>,
               <<Entry(e3, f1, 1, Requested), Entry(e2, NoFqdn, 1, Requested)>>}
MCAdditions == {Entry(e1, f1, 1, NoToken), Entry(e2, f1, 1, Requested), Entry(e3, f1, 1, Requested),
                Entry(e3, f1, NoCounter, Requested)}
MCUpdates == {[fqdn |-> f2, counter |-> NoCounter, key |-> FALSE],
              [fqdn |-> NoFqdn, counter |-> 0, key |-> FALSE],
              [fqdn |-> NoFqdn, counter |-> 0, key |-> TRUE]}
MCUpdatesAddress == {u \in MCUpdates : u.counter = NoCounter}
=============================================================================
