--------------------------- MODULE MCAppLifecycle ---------------------------
(* App.modules of a typical configuration, in order: 1 channel.telegram,
   2 gateway.http, 3 hook.tracing, 4 memory.sqlite,
   5 provider.openai_responses, 6 router, 7 cron. *)
EXTENDS AppLifecycle

AllStarters == {1, 2, 3, 6, 7}
AllStoppers == 1 .. 7
TimeOut == {1, 2, 3}
Cron == {7}
=============================================================================
