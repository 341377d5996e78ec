----------------------------- MODULE MCDialogue -----------------------------
(***************************************************************************)
(* A scene with two incidents, of which a third may become known, and a    *)
(* model that may answer a few of the envelopes of each kind.  The window  *)
(* of the referents is two turns, so that it ends within a conversation of *)
(* three.                                                                  *)
(***************************************************************************)
EXTENDS Dialogue

CONSTANTS here, Nonsense

MCIntents ==
  [kind : {"NEW_MISSION"}, phrase : {None}, step : {0}]
    \cup [kind : {"REPORT_INCIDENT"}, phrase : {"zone"}, step : {0, 1}]
    \cup [kind : {"REPORT_INCIDENT"}, phrase : {Nonsense}, step : {0}]
    \cup [kind : {"UPDATE_MISSION"}, phrase : {Deictic}, step : {0, 2}]
    \cup [kind : {"UPDATE_MISSION"}, phrase : {None}, step : {2}]
    \cup [kind : {"QUERY_STATUS"}, phrase : {Deictic, None, 1}, step : {0}]
    \cup [kind : {"UNSUPPORTED"}, phrase : {None}, step : {0}]

=============================================================================
