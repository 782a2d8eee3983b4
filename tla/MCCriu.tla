------------------------------- MODULE MCCriu -------------------------------
(* CriuCompat on small instances: the configurations, three machines, some   *)
(* of the declared scenarios and what a CRIU command may do: succeed within  *)
(* the gates or above them, be unsupported, or time out.                     *)
EXTENDS CriuCompat

Config == [dump_timeout_ms |-> 100, restore_timeout_ms |-> 120000, max_log_bytes |-> 1024,
           memory |-> <<4>>, counts |-> <<2, 2>>, normalized |-> TRUE]
MCConfigs ==
    { Config, [Config EXCEPT !.normalized = FALSE], [Config EXCEPT !.dump_timeout_ms = 99],
      [Config EXCEPT !.memory = <<>>], [Config EXCEPT !.counts = <<1>>] }
MCMachines == { [os |-> "linux", criu |-> TRUE, fixture |-> TRUE],
                [os |-> "linux", criu |-> TRUE, fixture |-> FALSE],
                [os |-> "macos", criu |-> FALSE, fixture |-> TRUE] }
MCDeclared == <<"workspace_mutation", "process_tree", "external_tcp">>
MCAppending == <<"open_regular_file", "external_tcp">>
Command(launched, exit, late, out, err, says, ms) ==
    [launched |-> launched, exit |-> exit, timed_out |-> late, stdout |-> out, stderr |-> err,
     says |-> says, latency |-> ms]
MCCommands == { Command(TRUE, 0, FALSE, 1000, 0, FALSE, 1000), Command(TRUE, 0, FALSE, 0, 1024, FALSE, 3001),
                Command(TRUE, 1, FALSE, 1000, 1000, TRUE, 5), Command(TRUE, 1, TRUE, 2000, 0, FALSE, 100) }
=============================================================================
