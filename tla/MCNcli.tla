------------------------------- MODULE MCNcli -------------------------------
\* Small instances of Ncli.
EXTENDS Ncli

CommandLine(peer, type, args, ret) == [i |-> peer, t |-> type, o |-> args, r |-> ret]

\* Two processes, an option given twice, a refusal that is expected, an
\* expected status longer than the answer, then two lines that main rejects:
\* an option that the type does not have, and no peer.
MCLine ==
  {CommandLine("a", "bind", <<<<"i", 1>>, <<"p", 0>>, <<"d", 3>>, <<"d", 2>>>>, "KO"),
   CommandLine("b", "term", <<>>, "OKAY"),
   CommandLine("a", "stop", <<<<"t", 1>>>>, "OK"),
   [t |-> "add", o |-> <<>>, r |-> "OK"]}

\* Two commands to one process that both expect to succeed.
MCLateLine ==
  {CommandLine("a", "start", <<<<"i", 1>>>>, "OK"), CommandLine("a", "stop", <<<<"i", 1>>>>, "OK")}

\* Every command type with up to three options, in any order and repeated.
Args(type) ==
  UNION {[1..n -> {<<letter, value>> : letter \in DOMAIN Member[type] \ {"c"}, value \in 1..2}] :
           n \in 0..3}

\* Parsing never loses, mixes or invents an option.
ASSUME ParsingIsFaithful ==
  \A type \in DOMAIN Member : \A args \in Args(type) :
    LET line == CommandLine("a", type, args, "OK")
        set  == {Member[type][args[i][1]] : i \in DOMAIN args}
        bare == CHOOSE c \in options_parse(CommandLine("a", type, <<>>, "OK")) : TRUE
    IN  \E cmd \in options_parse(line) :
          /\ AsTyped(cmd, line)
          /\ \A m \in DOMAIN cmd \ set : cmd[m] = bare[m]
=============================================================================
