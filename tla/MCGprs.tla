-------------------------------- MODULE MCGprs --------------------------------
(* Gprs with thresholds small enough to be passed within a few retries.     *)
EXTENDS Gprs

MCAnswers(cmd) ==
    CASE cmd = "ATE0"      -> {{"OK"}, {}}
      [] cmd = "CGATT"     -> {{"OK", "+CGATT: 1"}, {"OK"}}
      [] cmd = "QIOPEN"    -> {{"OK"}, {"OK", "CONNECT OK"}, {}}
      [] cmd = "opening"   -> {{"CONNECT OK"}, {"urc"}}
      [] cmd = "SEND_LEN"  -> {{">"}, {}}
      [] cmd = "SEND_DATA" -> {{"OK"}, {}, {"OK", "urc"}}
=============================================================================
