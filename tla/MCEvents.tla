------------------------------ MODULE MCEvents ------------------------------
EXTENDS Events
CONSTANTS l1, l2, e1, e2, e3

TwoExchanges == {"log.event", "pubsub.event"}
TwoKeys == {"PS_I0", "PS_I1"}

Everything == <<TwoKeys, {}, {}, {}>>
NoTopics   == <<{}, {}, {}, {}>>
TwoTopics  == <<{"PS_I0"}, {"PS_I1"}, {}, TwoKeys>>
FourTopics == <<{"PS_I0"}, {"PS_I1"}, {"PS_I0"}, TwoKeys>>
Gap        == <<{"PS_I0"}, {}, {"PS_I1"}, {}>>

Hears(p, q, x, t) == [program |-> p, queue |-> q, exchange |-> x, topics |-> t]
Through(x, k)     == [exchange |-> x, queue |-> "", key |-> k]
To(q)             == [exchange |-> "", queue |-> q, key |-> "PS_I0"]

Cast(lasting, listens, sends) == [lasting |-> lasting, listens |-> listens, sends |-> sends]

\* wxCVbn_Event_Listener.sh, with one topic more and with a gap, and the producer.
OnTopics ==
  Cast({}, l1 :> Hears("event_listener", "", "log.event", TwoTopics)
             @@ l2 :> Hears("event_listener", "", "log.event", Gap),
       e1 :> Through("", "PS_I0") @@ e2 :> Through("log.event", "PS_I1")
         @@ e3 :> Through("pubsub.event", "PS_I1"))

\* Two listeners that are given one name for their queues.
OnOneName ==
  Cast({}, l1 :> Hears("event_listener", "mine", "pubsub.event", NoTopics)
             @@ l2 :> Hears("event_listener", "mine", "log.event", FourTopics),
       e1 :> Through("pubsub.event", "PS_I0") @@ e2 :> Through("", "PS_I1")
         @@ e3 :> To("mine"))

\* wxCVbn_Queue_Listener.sh, whose queue is an asynchronous address, and one whose
\* exchange is not there.
OnAddress ==
  Cast({}, l1 :> Hears("event_listener", "", "", NoTopics)
             @@ l2 :> Hears("event_listener", "", "vireserver.event", Everything),
       e1 :> To(l1) @@ e2 :> To(l1) @@ e3 :> Through("vireserver.event", "PS_I0"))

\* The listeners of the tests of permissions.
OnTests ==
  Cast({"named"}, l1 :> Hears("direct_event_listener", "named", "", NoTopics)
                    @@ l2 :> Hears("exchange_event_listener", "", "log.event", Everything),
       e1 :> To("named") @@ e2 :> To("named") @@ e3 :> Through("log.event", "PS_I0"))

OnOneQueue ==
  Cast({"named"}, l1 :> Hears("direct_event_listener", "named", "", NoTopics)
                    @@ l2 :> Hears("direct_event_listener", "named", "", NoTopics),
       e1 :> To("named") @@ e2 :> To("named"))

AllCasts == <<OnTopics, OnOneName, OnAddress, OnTests, OnOneQueue>>
=============================================================================
