------------------------ MODULE MCAudioCommandThread ------------------------
(* TLC instance of AudioCommandThread: parameters of an output with one or *)
(* two keys, a patch from two sources, and two commands for the other      *)
(* thread.                                                                 *)
EXTENDS AudioCommandThread

Sets(kind, on, sets, sources) ==
  [kind |-> kind, on |-> on, sets |-> sets, sources |-> sources]

MCCommands ==
  {Sets("SET_PARAMETERS", "out", {"k1"}, <<>>),
   Sets("SET_PARAMETERS", "out", {"k1", "k2"}, <<>>),
   Sets("CREATE_AUDIO_PATCH", "patch", {"patch"}, <<1>>),
   Sets("CREATE_AUDIO_PATCH", "patch", {"patch"}, <<2>>),
   Sets("RELEASE_AUDIO_PATCH", "patch", {"patch"}, <<>>),
   Sets("STOP_OUTPUT", "out", {"out"}, <<>>),
   Sets("SET_VOICE_VOLUME", "voice", {"voice"}, <<>>),
   Sets("UPDATE_AUDIOPATCH_LIST", "all", {"all"}, <<>>)}

MCMaxPending == [t \in Thread |-> IF t = "ApmAudio" THEN 3 ELSE 2]
=============================================================================
