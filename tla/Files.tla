-------------------------------- MODULE Files --------------------------------
(* The files of a database: their names (db/filename.cc), with numbers in   *)
(* decimal digits (util/logging.cc), and the calls of PosixEnv that create, *)
(* find, rename and delete them (util/env_posix.cc).                        *)
(*                                                                          *)
(* A name is a word, digits and a suffix, in this order.  A directory is a  *)
(* function from its files to what is in them.                              *)
EXTENDS Naturals, SequencesExt, FiniteSetsExt, TLC

CONSTANT MaxNumber \* kMaxUint64, scaled down

ASSUME FilesConstants == MaxNumber \in Nat \ (0 .. 8)

----------------------------------------------------------------------------
(* Numbers                                                                  *)

\* AppendNumberTo, NumberToString
Digits(n) ==
    LET length == CHOOSE k \in 1 .. 20 : n < 10 ^ k /\ (k = 1 \/ n >= 10 ^ (k - 1))
    IN  [i \in 1 .. length |-> (n \div 10 ^ (length - i)) % 10]

\* ConsumeDecimalNumber: at least one digit, and no overflow.
ConsumeDecimalNumber(digits) ==
    LET overflows(v, delta) ==
            \/ v > MaxNumber \div 10
            \/ v = MaxNumber \div 10 /\ delta > MaxNumber % 10
        take(r, delta) ==
            IF r.ok /\ ~overflows(r.val, delta) THEN [r EXCEPT !.val = 10 * @ + delta]
            ELSE [r EXCEPT !.ok = FALSE]
    IN  FoldLeft(take, [ok |-> digits # <<>>, val |-> 0], digits)

----------------------------------------------------------------------------
(* Names                                                                    *)
Name(word, digits, suffix) == [word |-> word, digits |-> digits, suffix |-> suffix]

\* "%06llu"
SixDigits(n) == [i \in 1 .. 6 - Len(Digits(n)) |-> 0] \o Digits(n)

MakeFileName(number, suffix) == Name("", SixDigits(number), suffix)

LogFileName(number) == MakeFileName(number, ".log")
TableFileName(number) == MakeFileName(number, ".ldb")
SSTTableFileName(number) == MakeFileName(number, ".sst")
TempFileName(number) == MakeFileName(number, ".dbtmp")
DescriptorFileName(number) == Name("MANIFEST-", SixDigits(number), "")
CurrentFileName == Name("CURRENT", <<>>, "")
LockFileName == Name("LOCK", <<>>, "")
InfoLogFileName == Name("LOG", <<>>, "")
OldInfoLogFileName == Name("LOG", <<>>, ".old")

\* FileType
FixedType ==
    CurrentFileName :> "current" @@ LockFileName :> "lock"
      @@ InfoLogFileName :> "info log" @@ OldInfoLogFileName :> "info log"
SuffixType ==
    ".log" :> "log" @@ ".ldb" :> "table" @@ ".sst" :> "table" @@ ".dbtmp" :> "temp"

ParseFileName(name) ==
    LET n == ConsumeDecimalNumber(name.digits)
        Parsed(ok, number, type) == [ok |-> ok, number |-> number, type |-> type]
        Unknown == Parsed(FALSE, 0, "")
    IN  IF name \in DOMAIN FixedType THEN Parsed(TRUE, 0, FixedType[name])
        ELSE IF name.word = "MANIFEST-" /\ name.suffix = ""
        THEN Parsed(n.ok, n.val, "descriptor")
        ELSE IF name.word = "" /\ name.suffix \in DOMAIN SuffixType
        THEN Parsed(n.ok, n.val, SuffixType[name.suffix])
        ELSE Unknown

----------------------------------------------------------------------------
(* Directories                                                              *)

\* fopen with "w" truncates, with "a" it does not.
NewWritableFile(dir, f, empty) == (f :> empty) @@ dir
NewAppendableFile(dir, f, empty) == IF f \in DOMAIN dir THEN dir ELSE (f :> empty) @@ dir

FileExists(dir, f) == f \in DOMAIN dir

GetChildren(dir) == DOMAIN dir

DeleteFile(dir, f) == [g \in DOMAIN dir \ {f} |-> dir[g]]

\* rename replaces the target if there is one.
RenameFile(dir, src, target) == (target :> dir[src]) @@ DeleteFile(dir, src)

----------------------------------------------------------------------------
\* "Owned filenames have the form" (filename.cc:71): a name that is made is
\* parsed as what it was made for, also beyond six digits; no two are the same;
\* and a number that does not fit is refused, not taken for another.
ASSUME NamesAreParsed ==
    LET numbers == {1, 9, 10, 99999, 999999, 1000000, MaxNumber}
        made == [log |-> [n \in numbers |-> LogFileName(n)],
                 table |-> [n \in numbers |-> TableFileName(n)],
                 temp |-> [n \in numbers |-> TempFileName(n)],
                 descriptor |-> [n \in numbers |-> DescriptorFileName(n)]]
    IN  /\ \A type \in DOMAIN made : \A n \in numbers :
             ParseFileName(made[type][n]) = [ok |-> TRUE, number |-> n, type |-> type]
        /\ \A n \in numbers :
             ParseFileName(SSTTableFileName(n)) = ParseFileName(TableFileName(n))
        /\ \A n \in 1 .. 12 :
             ~ConsumeDecimalNumber(Digits(MaxNumber + n)).ok
        /\ ~ParseFileName(MakeFileName(1, ".txt")).ok
        /\ ~ParseFileName(Name("", <<>>, ".log")).ok

=============================================================================
