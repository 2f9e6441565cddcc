SPECIFICATION AfterSpec
CONSTANTS
 Items = {drill, saw}
 Bought <- MCBought
 Shipping = 1
 Returns = {r1, r2}
 Desks = {d1}
 Orders <- MCOrders
 Days = {7}
 MaxSlips = 0
INVARIANT MoneyFollowsTheGoods
CHECK_DEADLOCK FALSE
