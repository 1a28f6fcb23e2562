----------------------------- MODULE MCScheduler -----------------------------
(* Small instances of Scheduler. *)
EXTENDS Scheduler

CONSTANTS s1, s2

TwoShows == {s1, s2}

Config(shows, name, key, dir) ==
  [shows |-> shows, provider |-> [s \in TwoShows |-> name], api_key |-> key,
   bind |-> 1, data_dir |-> dir, control_socket |-> {}]

(* A show is added or removed; a restart-only setting is changed; and      *)
(* three mistakes: a show twice, no key, an unknown provider.              *)
OperatorConfigs ==
  {Config(<<s1>>, "difm", TRUE, 1),
   Config(<<s1, s2>>, "difm", TRUE, 1),
   Config(<<s2>>, "difm", TRUE, 2),
   [Config(<<s2>>, "difm", TRUE, 1) EXCEPT !.control_socket = {3}],
   Config(<<s1, s1>>, "difm", TRUE, 1),
   Config(<<s2>>, "difm", FALSE, 1),
   Config(<<s1, s2>>, "other", TRUE, 1)}

=============================================================================
