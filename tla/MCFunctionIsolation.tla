-------------------------- MODULE MCFunctionIsolation --------------------------
(* Model checking of FunctionIsolation, looking for the function f: all files *)
(* of up to MaxItems of the items below, with and without a last newline.     *)
EXTENDS FunctionIsolation

item(lines, role) == [lines |-> lines, role |-> role]

Header(name) == <<"name", name, "(", ")">>

MCItems == [
  (* In the style of the repository's own demos.                              *)
  define      |-> item(<<<<"#define", "name">>>>, "context"),
  long_define |-> item(<<<<"#define", "\\">>, <<"name">>>>, "context"),
  include     |-> item(<<<<"#include", "<h>">>>>, "context"),
  directive   |-> item(<<<<"#if", "name">>>>, "dropped"),
  blank       |-> item(<<<<>>>>, "dropped"),
  comment     |-> item(<<<<"//", "f", "(", ")", "{">>>>, "dropped"),
  doc         |-> item(<<<<"/*">>, <<"*", "f", "{">>, <<"*">>>>, "dropped"),
  struct      |-> item(<<<<"struct", "name", "{">>, <<"name", ";">>, <<"}", ";">>>>,
                       "context"),
  variable    |-> item(<<<<"name", ";">>>>, "variable"),
  local       |-> item(<<<<"static", "name", ";">>>>, "dropped"),
  prototype   |-> item(<<Header("f") \o <<";">>>>, "dropped"),
  long_proto  |-> item(<<<<"name", "f", "(">>, <<"name", ")", ";">>>>, "dropped"),
  caller      |-> item(<<Header("name") \o <<"{">>, <<"f", "(", ")", ";">>,
                         <<"name", "{">>, <<"}">>, <<"}">>>>, "other"),
  brief       |-> item(<<Header("name") \o <<"{", "name", ";", "}">>>>, "other"),
  function    |-> item(<<Header("f") \o <<"{">>, <<"name", "{">>, <<"}">>, <<"name", ";">>,
                         <<"}">>>>, "target"),
  long_header |-> item(<<<<"name", "f", "(">>, <<"name", ")">>, <<"{">>, <<"}">>>>,
                       "target"),
  structure   |-> item(<<<<"struct">> \o Header("f") \o <<"{">>, <<"}">>>>, "target"),
  (* Other C.                                                                 *)
  missing     |-> item(<<<<"#include", "missing">>>>, "context"),
  table       |-> item(<<<<"name", "{", "name", "}", ";">>>>, "variable"),
  same_line   |-> item(<<<<"name", ";">> \o Header("f") \o <<"{">>, <<"}">>>>, "target"),
  longer_name |-> item(<<Header("f2") \o <<"{">>, <<"}">>>>, "other"),
  other_word  |-> item(<<Header("f_x") \o <<"{">>, <<"f", "(", ")", ";">>, <<"}">>>>,
                       "other"),
  parameter   |-> item(<<<<"name", "name", "(", "f", ")", "{">>, <<"}">>>>, "other"),
  typedef     |-> item(<<<<"typedef", "name", ";">>>>, "context"),
  type_apart  |-> item(<<<<"name">>, <<"f", "(", ")", "{">>, <<"}">>>>, "target"),
  other_apart |-> item(<<<<"name">>, <<"name", "(", ")", "{">>, <<"}">>>>, "other")]
================================================================================
