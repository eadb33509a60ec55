----------------------------- MODULE FileTable -----------------------------
(***************************************************************************)
(* The file table of src/src/fido2/files.c and the look-ups it is made     *)
(* for.  The SDK's file system, which searches it, attaches the records of *)
(* the flash to its entries and reads them, is a submodule (external).     *)
(*                                                                         *)
(* A file identifier is its macro's name: their values are in headers of   *)
(* the submodules.  Access conditions and ef_structure, which only the     *)
(* applications read, are left out.                                        *)
(***************************************************************************)
EXTENDS Naturals, SequencesExt, TLC

CONSTANTS
  Written,   (* Bound of the checks: files that are written.               *)
  Values     (* What is written to them.                                   *)

\* The constant files: two bytes of length, the low one first, and the bytes.
\* (Mutation: the length is one too large.)
historical_bytes_long ==
  <<11, 0,  0, 49, 132, 115, 128, 1, 192, 5, 144, 0>>

historical_bytes ==
  <<10, 0,  0, 49, 132, 115, 128, 1, 192, 5, 144, 0>>
extended_capabilities ==
  <<10, 0,  119, 0, 0, 128, 8, 0, 0, 255, 0, 1>>
feature_mngmnt == <<3, 0,  129, 1, 32>>
exlen_info     == <<8, 0,  2, 2, 7, 255, 2, 2, 8, 0>>

arrays == [ historical_bytes      |-> historical_bytes,
            extended_capabilities |-> extended_capabilities,
            feature_mngmnt        |-> feature_mngmnt,
            exlen_info            |-> exlen_info ]

-----------------------------------------------------------------------------
(***************************************************************************)
(* Entries: in flash, computed by a function, or a constant array.         *)
(***************************************************************************)
Entry(fid, parent, name, type, kind, data) ==
  [ fid |-> fid, parent |-> parent, name |-> name, type |-> type,
    kind |-> kind, data |-> data ]

Flash(fids, type) ==
  [ i \in DOMAIN fids |-> Entry(fids[i], 0, "NULL", type, "flash", "NULL") ]
Working(fids)  == Flash(fids, "WORKING_EF")
Internal(fids) == Flash(fids, "INTERNAL_EF")

Func(fid, f)  == << Entry(fid, 0, "NULL", "WORKING_EF", "func", f) >>
Array(fid, a) == << Entry(fid, 0, "NULL", "WORKING_EF", "array", a) >>

\* prefix1, prefix2, ...
Numbered(prefix, first, last) ==
  [ i \in 1..(last - first + 1) |-> prefix \o ToString(first + i - 1) ]

DataObjects ==
     << Entry("EF_FULL_AID", 0, "openpgp_aid_full", "WORKING_EF", "array",
              "openpgp_aid_full") >>
  \o Working(<<"EF_CH_NAME", "EF_LOGIN_DATA", "EF_LANG_PREF", "EF_SEX", "EF_URI_URL">>)
  \o Array("EF_HIST_BYTES", "historical_bytes")
  \o Func("EF_CH_DATA", "parse_ch_data") \o Func("EF_SEC_TPL", "parse_sec_tpl")
  \o Func("EF_CH_CERT", "parse_ch_cert")
  \o Array("EF_EXLEN_INFO", "exlen_info") \o Array("EF_GFM", "feature_mngmnt")
  \o Working(<<"EF_SIG_COUNT">>)
  \o Array("EF_EXT_CAP", "extended_capabilities")
  \o Func("EF_ALGO_SIG", "parse_algoinfo") \o Func("EF_ALGO_DEC", "parse_algoinfo")
  \o Func("EF_ALGO_AUT", "parse_algoinfo") \o Func("EF_PW_STATUS", "parse_pw_status")
  \o Func("EF_FP", "parse_fp") \o Working(<<"EF_FP_SIG", "EF_FP_DEC", "EF_FP_AUT">>)
  \o Func("EF_CA_FP", "parse_cafp") \o Working(Numbered("EF_FP_CA", 1, 3))
  \o Func("EF_TS_ALL", "parse_ts") \o Working(<<"EF_TS_SIG", "EF_TS_DEC", "EF_TS_AUT">>)
  \o Working(<<"EF_RESET_CODE", "EF_UIF_SIG", "EF_UIF_DEC", "EF_UIF_AUT">>)
  \o Func("EF_KEY_INFO", "parse_keyinfo") \o Func("EF_ALGO_INFO", "parse_algoinfo")
  \o Func("EF_APP_DATA", "parse_app_data")
  \o Func("EF_DISCRETE_DO", "parse_discrete_do")

OpenPgpInternal ==
     Internal(<<"EF_PW1", "EF_RC", "EF_PW3">> \o Numbered("EF_ALGO_PRIV", 1, 3)
              \o <<"EF_PK_SIG", "EF_PK_DEC", "EF_PK_AUT", "EF_PB_SIG", "EF_PB_DEC",
                   "EF_PB_AUT", "EF_PW_PRIV", "EF_DEK">>)
  \o Working(<<"EF_KDF">>) \o Internal(Numbered("EF_CH_", 1, 3))

PivInternal ==
  Internal(<<"EF_PIV_ADMIN_DATA", "EF_PIV_ATTESTATION", "EF_PIV_MSCMAP">>
           \o Numbered("EF_PIV_MSROOTS", 1, 5))

\* EF_PIV_KEY_RETIRED12 is in the table twice.
\* (Mutation: and the first of the two is not in flash.)
PivKeyNames ==
  <<"EF_PIV_KEY_AUTHENTICATION", "EF_PIV_KEY_CARDMGM", "EF_PIV_KEY_SIGNATURE",
    "EF_PIV_KEY_KEYMGM", "EF_PIV_KEY_CARDAUTH">>

PivKeysUnlikeTwins ==
     Working(PivKeyNames \o Numbered("EF_PIV_KEY_RETIRED", 1, 11))
  \o Func("EF_PIV_KEY_RETIRED12", "parse_keyinfo")
  \o Working(Numbered("EF_PIV_KEY_RETIRED", 12, 20))
  \o Internal(<<"EF_PIV_KEY_ATTESTATION">>)

PivKeys ==
     Working(PivKeyNames \o Numbered("EF_PIV_KEY_RETIRED", 1, 12)
             \o Numbered("EF_PIV_KEY_RETIRED", 12, 20))
  \o Internal(<<"EF_PIV_KEY_ATTESTATION">>)

PivObjects ==
     Working(<<"EF_PIV_CAPABILITY", "EF_PIV_CHUID", "EF_PIV_AUTHENTICATION",
               "EF_PIV_FINGERPRINTS", "EF_PIV_SECURITY", "EF_PIV_FACIAL",
               "EF_PIV_PRINTED", "EF_PIV_SIGNATURE", "EF_PIV_KEY_MANAGEMENT",
               "EF_PIV_CARD_AUTH">>)
  \o Func("EF_PIV_DISCOVERY", "piv_parse_discovery")
  \o Working(<<"EF_PIV_KEY_HISTORY", "EF_PIV_IRIS", "EF_PIV_BITGT",
               "EF_PIV_SM_SIGNER", "EF_PIV_PC_REF_DATA">>
             \o Numbered("EF_PIV_RETIRED", 1, 20))
  \o Internal(<<"EF_PIV_PIN", "EF_PIV_PUK", "EF_META", "EF_PW_RETRIES">>)

FidoFiles ==
  Internal(<<"EF_KEY_DEV", "EF_KEY_DEV_ENC", "EF_MKEK", "EF_EE_DEV",
             "EF_EE_DEV_EA", "EF_COUNTER", "EF_PIN", "EF_AUTHTOKEN",
             "EF_PAUTHTOKEN", "EF_MINPINLEN", "EF_OPTS", "EF_LARGEBLOB",
             "EF_OTP_PIN">>)

\* Entry 0 of the C array is entry 1 here.
file_entries ==
     << Entry("0x3f00", 255, "NULL", "DF", "none", "NULL") >>
  \o DataObjects \o OpenPgpInternal
  \o PivInternal \o PivKeys \o PivObjects
  \o << Entry("0x0000", 0, "openpgp_aid", "WORKING_EF", "none", "NULL") >>
  \o FidoFiles
  \o << Entry("0x0000", 255, "NULL", "NOT_KNOWN", "none", "NULL") >>

MF           == 1
file_openpgp == Len(file_entries) - 1
file_last    == Len(file_entries)

-----------------------------------------------------------------------------
(***************************************************************************)
(* The file system (external).  A search goes through the entries from MF  *)
(* up to file_last and ends at the first that matches; 0x0000 is no        *)
(* identifier.                                                             *)
(***************************************************************************)
VARIABLES
  flash,     (* The records in flash: file identifier to contents.         *)
  data,      (* The entries' data pointers that are attached to a record.  *)
  answer     (* The last answer: what was asked for and what was found.    *)

vars == <<flash, data, answer>>

Fid(i) == file_entries[i].fid

Searched == MF..(file_last - 1)

\* Where a search for fid ends.
Search(fid) ==
  SelectInSubSeq(file_entries, MF, file_last - 1, LAMBDA e : e.fid = fid)

\* The entries that a search ends at, one for each identifier.
Found == { Search(fid) : fid \in { Fid(i) : i \in Searched } \ {"0x0000"} }

\* What a read of entry i gives: a flash file that has no record is empty, an
\* array is read as far as its length says.
Contents(i) ==
  IF file_entries[i].kind # "flash" THEN file_entries[i].data
  ELSE IF i \in DOMAIN data THEN data[i] ELSE "empty"

Put(f, a, v) == [ b \in DOMAIN f \cup {a} |-> IF b = a THEN v ELSE f[b] ]

Write(i, v) ==
  /\ Fid(i) \in Written /\ file_entries[i].kind = "flash"
  /\ flash' = Put(flash, Fid(i), v)
  /\ data' = Put(data, i, v)
  /\ answer' = <<"none", "none">>

Read(i) ==
  /\ answer' = <<Fid(i), Contents(i)>>
  /\ UNCHANGED <<flash, data>>

\* A boot: the table is as it was compiled, and every record is attached to
\* the entry that its identifier is found at.
Scan ==
  /\ data' = [ i \in {j \in Found : Fid(j) \in DOMAIN flash} |-> flash[Fid(i)] ]
  /\ UNCHANGED <<flash, answer>>

\* OpenPGP is selected.
SelectOpenPgp ==
  /\ answer' = <<"openpgp", file_entries[file_openpgp].name>>
  /\ UNCHANGED <<flash, data>>

Init == flash = <<>> /\ data = <<>> /\ answer = <<"none", "none">>

Next ==
  \/ \E i \in Found : Read(i) \/ \E v \in Values : Write(i, v)
  \/ Scan
  \/ SelectOpenPgp

Spec == Init /\ [][Next]_vars

-----------------------------------------------------------------------------
\* What the entry e stands for: the value written last, across boots, if it is
\* a flash file, otherwise its function or array.
Meant(e) ==
  IF e.kind # "flash" THEN e.data
  ELSE IF e.fid \in DOMAIN flash THEN flash[e.fid] ELSE "empty"

\* Whichever of the entries with an identifier is meant, the search finds what
\* that one stands for.  (An entry that appears twice hides the second one,
\* which must therefore be like the first.)
FoundIsMeant ==
  \A e \in Range(file_entries) : answer[1] = e.fid => answer[2] = Meant(e)

\* An array that is read is read to its last byte and no further.
ReadInBounds ==
  answer[2] \in DOMAIN arrays =>
    LET a == arrays[answer[2]] IN a[1] + 256 * a[2] + 2 = Len(a)

\* file_openpgp is the entry that carries the name openpgp_aid, which the table
\* numbers 132.
SelectsOpenPgp == answer[1] = "openpgp" => answer[2] = "openpgp_aid"
=============================================================================
