---------------------------- MODULE ShieldTables ----------------------------
(***************************************************************************)
(* The category tables of ngx_http_shield_patterns.h: which category has a *)
(* signature table, on which normalised buffer it matches, in which        *)
(* positions of a request it must stay silent, the AND-rules, and the      *)
(* categories that each header is scanned for.  A mask of the code is the  *)
(* set of its categories; a signature is represented by its category.      *)
(***************************************************************************)
EXTENDS Naturals, Sequences, FiniteSets

(* The match bits of a table row. *)
Row(c, bufs, silent) == [cat |-> c, bufs |-> bufs, silent |-> silent]
DECODED == {"decoded"}
RAW == {"raw"}
NO_BODY == {"body"}
NO_QUERY == {"query"}

categories == <<
    Row("sqli", DECODED, {}),
    Row("xss", DECODED, NO_BODY \cup NO_QUERY),
    Row("traversal", DECODED \cup RAW, NO_BODY),
    Row("overlong", RAW, {}),
    Row("cmdi", DECODED, NO_BODY),
    Row("lfi", DECODED, NO_BODY),
    Row("crlf", DECODED \cup RAW, {}),
    Row("nullbyte", RAW, {}),
    Row("template", DECODED, NO_BODY),
    Row("deserial", DECODED, {}),
    Row("shellshock", DECODED, {}),
    Row("php_rce", DECODED, NO_BODY),
    Row("java_rce", DECODED \cup RAW, NO_BODY),
    Row("java_eval", DECODED, NO_BODY),
    Row("rails_yaml", DECODED, {}),
    Row("drupal", DECODED, {}),
    Row("vbulletin", DECODED, {}),
    Row("xmlrpc", DECODED, {}),
    Row("ssi", DECODED, {}),
    Row("imagetragick", DECODED, {}),
    Row("sensitive_file", DECODED, NO_BODY \cup NO_QUERY),
    Row("webshell", DECODED, {}),
    Row("ssrf_meta", DECODED, {}),
    Row("nosql", DECODED \cup RAW, {}),
    Row("ssti", DECODED \cup RAW, {}),
    Row("exploit_path", DECODED \cup RAW, NO_BODY)>>

(* The checks that have a category but no signatures. *)
Structural == {"httpoxy", "range_dos", "ctrl_char", "dotfile"}

TableCats == {categories[i].cat : i \in DOMAIN categories}
Cats == TableCats \cup Structural

no_body_mask == {categories[i].cat : i \in {j \in DOMAIN categories :
                                              "body" \in categories[j].silent}}
no_query_mask == {categories[i].cat : i \in {j \in DOMAIN categories :
                                               "query" \in categories[j].silent}}

(* The AND-rules: the category each one reports; all match decoded bytes.  *)
rules == <<
    [cat |-> "exploit_path", name |-> "ofbiz_authbypass",
     terms |-> <<"requirepasswordchange=y", "/webtools/control/">>],
    [cat |-> "deserial", name |-> "metabase_jdbc_rce",
     terms |-> <<"jdbc:h2:", "init=">>],
    [cat |-> "exploit_path", name |-> "jenkins_cli_read",
     terms |-> <<"/cli?", "remoting=true">>],
    [cat |-> "exploit_path", name |-> "vmware_wsone_ssti",
     terms |-> <<"/catalog-portal/ui/oauth/verify", "${">>],
    [cat |-> "ssrf_meta", name |-> "ssrf_wildcard_dns",
     terms |-> <<".nip.io", "169-254-169-254">>],
    [cat |-> "exploit_path", name |-> "coldfusion_cfclient",
     terms |-> <<"/cf_scripts/scripts/ajax/ckeditor/plugins/filemanager/",
                 "_cfclient=true">>]>>

(* cat_by_name: the category that a shield_skip token names. *)
Named(token) == token \in Cats
=============================================================================
