------------------------------ MODULE MCProbe -------------------------------
(***************************************************************************)
(* Probe with the openings the guard's comment names: up to two probes of  *)
(* versions not supported and then initialize, or requests that name a     *)
(* version; and a probe after initialize.                                  *)
(***************************************************************************)
EXTENDS Probe

CONSTANTS old, new, newer

Say(kind, version) == [kind |-> kind, version |-> version]

Probes == {<<>>} \cup {<<Say("discover", v)>> : v \in Unsupported}
                 \cup {<<Say("discover", new), Say("discover", newer)>>}
Greeting == <<Say("initialize", NoVersion), Say("initialized", NoVersion)>>
Plain == <<Say("tools", NoVersion), Say("tools", NoVersion)>>
Later == <<Say("discover", new), Say("tools", NoVersion)>>
Modern == <<Say("discover", old), Say("tools", old), Say("tools", old)>>

Numbered(s) == [k \in DOMAIN s |-> [id |-> k, kind |-> s[k].kind, version |-> s[k].version]]

PlansDef ==
  {Numbered(p \o q) : p \in Probes, q \in {Greeting \o Plain, Greeting \o Later, Modern}}
=============================================================================
