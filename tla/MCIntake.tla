------------------------------ MODULE MCIntake ------------------------------
(* Instances of Intake for TLC: each deploys some objects and may edit them. *)
EXTENDS Intake

Setup(objects, specs, deliveries, max) ==
  [objects |-> objects, specs |-> specs, deliveries |-> deliveries, mishaps |-> max]

Trigger(kind) ==
  [kind |-> kind, secret |-> FALSE, events |-> {}, sources |-> {}, branches |-> {},
   actions |-> {}, labels |-> {}, path |-> "hook"]

WorkflowSpec(trigger, schedule, suspend, both) ==
  [trigger |-> trigger, schedule |-> schedule, suspend |-> suspend, both |-> both]

Delivery(kind) ==
  [kind |-> kind, event |-> "push", signed |-> TRUE, json |-> TRUE, source |-> "repo",
   branch |-> <<"feature", "x">>, action |-> "", labels |-> {}, path |-> "hook"]

-----------------------------------------------------------------------------
Daily == WorkflowSpec(Trigger("generic"), "daily", FALSE, FALSE)

Scheduled ==
  Setup({Workflow("first"), CronJob("first"), Agent},
        {Daily, [Daily EXCEPT !.suspend = TRUE], [Daily EXCEPT !.both = TRUE],
         [Daily EXCEPT !.trigger.kind = "github", !.schedule = "hourly"]},
        {}, 3)

OnPush ==
  WorkflowSpec([Trigger("github") EXCEPT !.secret = TRUE, !.events = {"push"},
                  !.branches = {<<"main">>, <<"feature", "**">>}, !.sources = {"repo"}],
               NoSchedule, FALSE, FALSE)

OnHook ==
  WorkflowSpec([Trigger("gitlab") EXCEPT !.events = {"Push Hook"}, !.actions = {"open"}],
               NoSchedule, FALSE, FALSE)

Push == Delivery("github")
HookPush == [Delivery("gitlab") EXCEPT !.event = "push", !.branch = <<"main">>]
Unsigned == [Delivery("github") EXCEPT !.signed = FALSE]

MCDeliveries == {Push, HookPush, Unsigned}

Pushed == Setup({Workflow("first"), Workflow("second"), Secret},
                {OnPush, [OnPush EXCEPT !.suspend = TRUE]}, {Push}, 2)
Hooked == Setup({Workflow("first"), Workflow("second")}, {OnHook}, {HookPush}, 2)
Forged == Setup({Workflow("first"), Secret},
                {OnPush, [OnPush EXCEPT !.trigger.secret = FALSE]}, {Push, Unsigned}, 1)

-----------------------------------------------------------------------------
Inline == [source |-> "inline", needsKey |-> TRUE, knownModel |-> TRUE, verify |-> FALSE]

Validating ==
  Setup({PiAgent, ConfigMap, Secret},
        {Inline, [Inline EXCEPT !.source = "configmap"],
         [Inline EXCEPT !.source = "several", !.needsKey = FALSE],
         [Inline EXCEPT !.knownModel = FALSE],
         [Inline EXCEPT !.source = "oci", !.verify = TRUE]},
        {}, 2)

Bot == [type |-> "telegram", image |-> "bot", webhook |-> NoWebhook]

Exposed ==
  Setup({Channel, Agent, Deployment, Service, Ingress},
        {Bot, [Bot EXCEPT !.webhook = "host"], [Bot EXCEPT !.image = "newer"],
         [Bot EXCEPT !.type = "slack", !.webhook = "host"]},
        {}, 2)

MCSetups == {Scheduled, Pushed, Hooked, Forged, Validating, Exposed}
=============================================================================
