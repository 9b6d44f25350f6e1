-------------------------------- MODULE Menu --------------------------------
(***************************************************************************)
(* The menu dictionary every component reads: app/domain/menu.py over the  *)
(* cafe's menu_data.yaml and the slang_aliases of its profile.yaml.        *)
(*                                                                         *)
(* load_menu() is cached for the life of the process, so the dictionary is *)
(* constant.  Names are arbitrary strings: a caller may pass one that is   *)
(* neither a menu nor an alias.                                            *)
(***************************************************************************)
EXTENDS Integers, Sequences

CONSTANTS
    MenuName,           \* "kr" of the entries of menus
    MenuCategory,       \* a menu's category
    StockField,         \* a menu's stock field, -1 when it is absent or null:
                        \* sold out, so many left, or unlimited
    OptionName,         \* "kr" of the options of option_categories
    OptionCategory,     \* the option category an option is listed in
    Applicable,         \* applicable_categories of an option category, every
                        \* menu category when the field is absent
    Slang               \* slang_aliases: an alias to its list of targets

ASSUME MenuAssumption ==
    /\ StockField \in [MenuName -> Nat \cup {-1}]
    /\ DOMAIN MenuCategory = MenuName
    /\ DOMAIN OptionCategory = OptionName
    /\ \A o \in OptionName : OptionCategory[o] \in DOMAIN Applicable

is_valid_menu(name) == name \in MenuName

\* Fault: the menu's category is not looked at.
KnownOption(option, category) == option \in OptionName

is_option_applicable(option, category) ==
    /\ option \in OptionName
    /\ category \in Applicable[OptionCategory[option]]

\* get_menu_stock is None: nothing limits how many are ordered.
UnlimitedStock(menu) == StockField[menu] = -1

\* resolve_menu_alias(name) or name: only an alias of exactly one menu is
\* resolved, one of several menus is left for the customer to settle.
Resolved(name) ==
    IF /\ name \in DOMAIN Slang
       /\ Len(Slang[name]) = 1
       /\ Slang[name][1] \in MenuName
    THEN Slang[name][1]
    ELSE name
=============================================================================
