SPECIFICATION Spec
CONSTANTS
    Tills = {1000, 1001}
    CashTills = {1000, 1001}
    Terminals = {1, 2}
    Users = {1, 2}
    Registers = {1, 2}
    Amounts = {1}
    CashLimit = 1
INVARIANTS
    DrawerWithItsCashier
    UnheldIsEmpty
    CashIsConserved
    ShiftFollowsRegister
    BooksMatchDrawer
