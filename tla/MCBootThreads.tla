-------------------------- MODULE MCBootThreads --------------------------
(* Small instances of BootThreads for TLC. *)
EXTENDS BootThreads

CONSTANTS cb1, cb2

\* One static entry, on exit of BS_OS_RESUME_CHECK.
OneStaticEntry ==
  [p \in Phases |-> IF p = <<BS_OS_RESUME_CHECK, BS_ON_EXIT>> THEN <<cb1>> ELSE <<>>]

ResumeStates == {BS_OS_RESUME_CHECK, BS_OS_RESUME, BS_WRITE_TABLES}
LateStates   == {BS_OS_RESUME_CHECK, BS_PAYLOAD_BOOT}
=============================================================================
