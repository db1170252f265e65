------------------------- MODULE MCBoundExecution -------------------------
(* TLC instance of the host: three adapters, two of one id; two metrics    *)
(* and two policies of one id each; two publishers of one record.          *)
EXTENDS BoundExecution, TLC

Version(major, minor) == [major |-> major, minor |-> minor]
Entry(id, major, minor) == [id |-> id, version |-> Version(major, minor)]

(* Adapters: 2.1 and 2.2 of one id, the newer with the upstream revised,   *)
(* its capabilities out of order; one of another id; one without any       *)
(* capability, which is never registered.                                  *)
Upstream(revision) == <<[component |-> 1, revision |-> revision]>>
Adapters(id, major, minor, upstream, capabilities) ==
  Entry(id, major, minor) @@ [upstream |-> upstream, capabilities |-> capabilities]
OldAdapter == Adapters(1, 2, 1, Upstream(1), <<Entry(1, 1, 0)>>)
NewAdapter == Adapters(1, 2, 2, Upstream(2), <<Entry(2, 1, 0), Entry(1, 1, 0)>>)
PlainAdapter == Adapters(2, 1, 0, <<>>, <<Entry(1, 1, 0)>>)
EmptyAdapter == Adapters(3, 1, 0, <<>>, <<>>)

MCAdapterOffers == { [metadata |-> OldAdapter, engine |-> "old"],
                     [metadata |-> NewAdapter, engine |-> "new"],
                     [metadata |-> PlainAdapter, engine |-> "plain"],
                     [metadata |-> EmptyAdapter, engine |-> "empty"] }
MCAdapterLists == { <<OldAdapter>>, <<NewAdapter, PlainAdapter>>, <<OldAdapter, NewAdapter>>,
                    <<PlainAdapter, OldAdapter, PlainAdapter>> }
Offer(id, major, minor, implementation) ==
  Entry(id, major, minor) @@ [implementation |-> implementation]
MCMetricOffers == { Offer(1, 1, 0, "first"), Offer(1, 1, 1, "second") }
MCPolicyOffers == { Offer(1, 1, 1, "highest"), Offer(1, 2, 0, "lowest") }
MCPolicyScore(implementation, signature) ==
  IF implementation = "highest" THEN signature ELSE -signature

Signatures == 1 .. 2
MCEngines == [baseline : {1, Failure}, evaluate : [1 .. 2 -> Signatures \cup {Failure}]]

(* Bundles: made from unsorted scenarios; the requirements vary.           *)
Scenario(id, intervention) == [id |-> id, intervention |-> intervention]
Two == <<Scenario(2, 1), Scenario(1, 2)>>
Make(adapter, seed, scenarios, metric, policy) ==
  NewBundle([form |-> "good", id |-> 1, seed |-> seed, adapter |-> adapter,
             scenarios |-> scenarios, metric |-> metric, policy |-> policy])
Requires(id, major, minor, upstream) == Entry(id, major, minor) @@ [upstream |-> upstream]

Made ==
  { Make(OfferedBy(OldAdapter), <<7>>, Two, <<Entry(1, 1, 0)>>, <<Entry(1, 1, 0)>>),
    Make(Requires(1, 2, 2, <<>>), <<>>, Two, <<Entry(1, 1, 1)>>, <<>>),
    Make(Requires(1, 2, 0, <<>>), <<>>, Two, <<>>, <<Entry(1, 2, 0)>>),
    Make(OfferedBy(PlainAdapter), <<>>, <<Scenario(1, 1)>>, <<>>, <<>>),
    Make(Requires(2, 1, 0, Upstream(1)), <<>>, <<Scenario(1, 1)>>, <<>>, <<>>) }

Reversed == [Make(OfferedBy(PlainAdapter), <<>>, Two, <<>>, <<>>) EXCEPT !.scenarios = Two]
Repeated == [Reversed EXCEPT !.scenarios = <<Scenario(1, 1), Scenario(1, 2)>>]
Unread ==
  { Reversed, Repeated,
    [Reversed EXCEPT !.scenarios = <<>>], [Reversed EXCEPT !.form = "schema"],
    [Reversed EXCEPT !.metric = <<Entry(1, 0, 1)>>] }
MCBundleTexts == Made \cup Unread

(* A catalog in transit: other text, an entry repeated, moved, made older  *)
(* or newer, or its id or upstream lost.                                   *)
ChangesIn(text, section) ==
  IF text[section] = <<>> THEN {}
  ELSE LET first == text[section][1] IN
         { [text EXCEPT ![section] = <<first>> \o @],
           [text EXCEPT ![section] = Reverse(@)],
           [text EXCEPT ![section][1].id = 0],
           [text EXCEPT ![section][1].version.minor = 9],
           [text EXCEPT ![section][1].version.major = 0] }
MCAlterations(text) ==
  UNION { ChangesIn(text, section) : section \in {"adapters", "metrics", "policies"} }
    \cup { [text EXCEPT !.form = form] : form \in Forms \ {"good"} }
    \cup { [text EXCEPT !.adapters = [i \in DOMAIN text.adapters |-> [text.adapters[i] EXCEPT !.upstream = <<>>]]] }
=============================================================================
