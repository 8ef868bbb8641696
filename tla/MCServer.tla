------------------------------ MODULE MCServer ------------------------------
(* Model-checking instances of Server: one per transaction kind.           *)
EXTENDS Server

\* Client packet sequences for an inject of two buffers: the well-formed
\* stream, data after the EOF, EOF before the data, and a stray interrupt.
InjectScripts ==
    { <<"d", "d", "E">>, <<"d", "E", "d">>, <<"E", "d">>, <<"d", "I">> }

\* Extract: the client sends nothing more, or a stray interrupt.
ExtractScripts == { << >>, <<"I">> }

\* Command: stdin data, EOF on stdin, interrupt.
CommandScripts == { <<"0", "E">>, <<"0", "I", "0">>, <<"E", "0">> }
=============================================================================
