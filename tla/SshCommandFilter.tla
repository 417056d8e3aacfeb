--------------------------- MODULE SshCommandFilter ---------------------------
(***************************************************************************)
(* SSHValidationService (src/src/ssh/services): what SSHService lets        *)
(* through to a server.  A command is its first word and the dangerous      *)
(* patterns that it matches; an address is what a server's row says of      *)
(* host, port and user.                                                    *)
(***************************************************************************)
EXTENDS FiniteSets

(* Mutant: pipes, lists and brackets are let through.                       *)
PatternsWithoutOperators ==
    {"redirection", "network", "system", "process", "file system", "package"}

(* dangerousCommandPatterns, by the groups of the source; "operator" stands *)
(* for any of  ; & | ` $ ( ) { } [ ]                                        *)
DangerousPatterns ==
    {"operator", "redirection", "network", "system", "process", "file system", "package"}

(* allowedCommandPrefixes                                                   *)
AllowedCommandPrefixes ==
    {"ls", "cat", "head", "tail", "grep", "find", "locate", "which", "whereis", "file", "stat",
     "du", "df", "awk", "sed", "sort", "uniq", "wc", "cut", "ps", "top", "htop", "free",
     "uptime", "uname", "whoami", "id", "groups", "wp", "php", "mysql", "mysqldump",
     "apache2ctl", "nginx", "systemctl", "service", "journalctl", "logrotate", "tar", "gzip",
     "gunzip", "zip", "unzip"}

Words(base, marks) == [base |-> base, marks |-> marks]
Plain(base) == Words(base, {})
Joined(base) == Words(base, {"operator"})
Quiet(base) == Words(base, {"redirection"})
QuietlyJoined(base) == Words(base, {"operator", "redirection"})

ValidateCommand(command) ==
    command.marks \cap DangerousPatterns = {} /\ command.base \in AllowedCommandPrefixes

(***************************************************************************)
(* A server is created with any host and user that are not empty; connect   *)
(* asks for a host of RFC 1123 and a lower-case POSIX user.                 *)
(***************************************************************************)
Addresses == {"proper", "upper-case user"}
ValidateAddress(address) == address # "upper-case user"
=============================================================================
