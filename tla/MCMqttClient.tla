---------------------------- MODULE MCMqttClient ----------------------------
(* Instances of MqttClient: two topics and two entries for handlers.      *)
EXTENDS MqttClient

CONSTANTS t1, t2
TopicPair == {t1, t2}
AnyLoss == {"reset", "silent", "eof"}
Closed == {"eof"}
=============================================================================
